---- MODULE Spec2Model ----
(***************************************************************************)
(* A model of the colour-generator server: the /api/generate selection     *)
(* engine, its candidate store (in-memory map plus lowdb shadow), the      *)
(* colour arithmetic it uses, and the bounded mapper of the image          *)
(* analysis.                                                               *)
(*                                                                         *)
(* Strings are sequences of one-character strings, so that tokenizing,     *)
(* trimming, lower-casing and hashing are computed character by character. *)
(* Colours are 24-bit integers r*65536 + g*256 + b: the canonical text     *)
(* '#RRGGBB' (upper case) of the code and the integer determine each       *)
(* other, and the code's comparison after toUpperCase() is equality of     *)
(* the integers.                                                           *)
(***************************************************************************)
EXTENDS Integers, Sequences, FiniteSets, TLC

(***************************************************************************)
(* Characters and strings                                                  *)
(***************************************************************************)
LowerAlpha ==
  <<"a","b","c","d","e","f","g","h","i","j","k","l","m",
    "n","o","p","q","r","s","t","u","v","w","x","y","z">>

UpperAlpha ==
  <<"A","B","C","D","E","F","G","H","I","J","K","L","M",
    "N","O","P","Q","R","S","T","U","V","W","X","Y","Z">>

DigitChars == <<"0","1","2","3","4","5","6","7","8","9">>

IndexOf(seq, c) == CHOOSE i \in 1..Len(seq) : seq[i] = c

IsIn(seq, c) == \E i \in 1..Len(seq) : seq[i] = c

\* String.prototype.charCodeAt for the characters of the model's alphabet.
charCodeAt(c) ==
  IF IsIn(LowerAlpha, c) THEN 96 + IndexOf(LowerAlpha, c)
  ELSE IF IsIn(UpperAlpha, c) THEN 64 + IndexOf(UpperAlpha, c)
  ELSE IF IsIn(DigitChars, c) THEN 47 + IndexOf(DigitChars, c)
  ELSE 32

\* String.prototype.toLowerCase, one character.
toLowerChar(c) ==
  IF IsIn(UpperAlpha, c) THEN LowerAlpha[IndexOf(UpperAlpha, c)] ELSE c

toLowerCase(s) == [i \in 1..Len(s) |-> toLowerChar(s[i])]

RECURSIVE trimStart(_)
trimStart(s) ==
  IF s # <<>> /\ Head(s) = " " THEN trimStart(Tail(s)) ELSE s

RECURSIVE trimEnd(_)
trimEnd(s) ==
  IF s # <<>> /\ s[Len(s)] = " " THEN trimEnd(SubSeq(s, 1, Len(s) - 1)) ELSE s

\* String.prototype.trim.
trim(s) == trimEnd(trimStart(s))

\* Number-to-string of `normalizedQuery + i` for a small non-negative i.
RECURSIVE numberToString(_)
numberToString(n) ==
  IF n < 10 THEN <<DigitChars[n + 1]>>
  ELSE numberToString(n \div 10) \o <<DigitChars[(n % 10) + 1]>>

(***************************************************************************)
(* tokenizeQuery: lower-case, split on runs of characters outside a-z,     *)
(* drop the empty pieces.                                                  *)
(***************************************************************************)
RECURSIVE splitTokens(_, _, _)
splitTokens(s, cur, acc) ==
  IF s = <<>> THEN (IF cur = <<>> THEN acc ELSE Append(acc, cur))
  ELSE IF IsIn(LowerAlpha, Head(s))
       THEN splitTokens(Tail(s), Append(cur, Head(s)), acc)
       ELSE splitTokens(Tail(s), <<>>,
                        IF cur = <<>> THEN acc ELSE Append(acc, cur))

tokenizeQuery(query) == splitTokens(toLowerCase(query), <<>>, <<>>)

(***************************************************************************)
(* Colours                                                                 *)
(***************************************************************************)
RGB(r, g, b) == r * 65536 + g * 256 + b

Red(c) == c \div 65536
Green(c) == (c \div 256) % 256
Blue(c) == c % 256

\* What `rawColorData.hex` evaluates to when rawColorData is not a lexicon
\* entry (a property read that yields undefined).
Undefined == 0 - 1

IsColorHex(c) == c \in 0..16777215

(***************************************************************************)
(* getHashColor.  The code keeps `hash` in a double and applies ToInt32    *)
(* at `hash << 5` and at `hash >> (i * 8)`; the intermediate values stay   *)
(* far below 2^53, so ToInt32(hash) is the 32-bit wraparound of            *)
(* 31 * hash + charCode.  The 32-bit word is kept as two 16-bit halves.    *)
(***************************************************************************)
\* The loop with the carry from the low half to the high half left out.
RECURSIVE hashOfNoCarry(_, _, _)
hashOfNoCarry(str, hi, lo) ==
  IF str = <<>> THEN <<hi, lo>>
  ELSE hashOfNoCarry(Tail(str), (31 * hi) % 65536,
                     (31 * lo + charCodeAt(Head(str))) % 65536)

RECURSIVE hashOf(_, _, _)
hashOf(str, hi, lo) ==
  IF str = <<>> THEN <<hi, lo>>
  ELSE LET l == 31 * lo + charCodeAt(Head(str))
           h == 31 * hi + (l \div 65536)
       IN  hashOf(Tail(str), h % 65536, l % 65536)

getHashColor(str) ==
  LET w == hashOf(str, 0, 0)
      hi == w[1]
      lo == w[2]
  IN  RGB(lo % 256, lo \div 256, hi % 256)

(***************************************************************************)
(* The colour lexicon (colorNames), in the order of the source.            *)
(***************************************************************************)
colorNames ==
  <<
    [name |-> <<"r","e","d">>,
     hex |-> RGB(255, 0, 0), range |-> <<<<0, 20>>, <<235, 255>>>>],
    [name |-> <<"g","r","e","e","n">>,
     hex |-> RGB(0, 128, 0), range |-> <<<<60, 110>>>>],
    [name |-> <<"b","l","u","e">>,
     hex |-> RGB(0, 0, 255), range |-> <<<<150, 190>>>>],
    [name |-> <<"y","e","l","l","o","w">>,
     hex |-> RGB(255, 255, 0), range |-> <<<<30, 55>>>>],
    [name |-> <<"c","y","a","n">>,
     hex |-> RGB(0, 255, 255), range |-> <<<<110, 145>>>>],
    [name |-> <<"m","a","g","e","n","t","a">>,
     hex |-> RGB(255, 0, 255), range |-> <<<<195, 230>>>>],
    [name |-> <<"w","h","i","t","e">>,
     hex |-> RGB(255, 255, 255), range |-> <<<<0, 255>>>>],
    [name |-> <<"b","l","a","c","k">>,
     hex |-> RGB(0, 0, 0), range |-> <<<<0, 255>>>>],
    [name |-> <<"g","r","a","y">>,
     hex |-> RGB(128, 128, 128), range |-> <<<<0, 255>>>>],
    [name |-> <<"g","r","e","y">>,
     hex |-> RGB(128, 128, 128), range |-> <<<<0, 255>>>>],
    [name |-> <<"o","r","a","n","g","e">>,
     hex |-> RGB(255, 165, 0), range |-> <<<<20, 45>>>>],
    [name |-> <<"p","u","r","p","l","e">>,
     hex |-> RGB(128, 0, 128), range |-> <<<<180, 220>>>>],
    [name |-> <<"p","i","n","k">>,
     hex |-> RGB(255, 192, 203), range |-> <<<<220, 250>>>>],
    [name |-> <<"b","r","o","w","n">>,
     hex |-> RGB(165, 42, 42), range |-> <<<<0, 30>>>>],
    [name |-> <<"l","i","m","e">>,
     hex |-> RGB(0, 255, 0), range |-> <<<<70, 95>>>>],
    [name |-> <<"n","a","v","y">>,
     hex |-> RGB(0, 0, 128), range |-> <<<<150, 180>>>>],
    [name |-> <<"t","e","a","l">>,
     hex |-> RGB(0, 128, 128), range |-> <<<<110, 140>>>>],
    [name |-> <<"m","a","r","o","o","n">>,
     hex |-> RGB(128, 0, 0), range |-> <<<<240, 255>>, <<0, 10>>>>],
    [name |-> <<"o","l","i","v","e">>,
     hex |-> RGB(128, 128, 0), range |-> <<<<40, 70>>>>],
    [name |-> <<"s","i","l","v","e","r">>,
     hex |-> RGB(192, 192, 192), range |-> <<<<0, 255>>>>],
    [name |-> <<"g","o","l","d">>,
     hex |-> RGB(255, 215, 0), range |-> <<<<30, 50>>>>],
    [name |-> <<"v","i","o","l","e","t">>,
     hex |-> RGB(238, 130, 238), range |-> <<<<190, 230>>>>],
    [name |-> <<"i","n","d","i","g","o">>,
     hex |-> RGB(75, 0, 130), range |-> <<<<180, 200>>>>],
    [name |-> <<"t","u","r","q","u","o","i","s","e">>,
     hex |-> RGB(64, 224, 208), range |-> <<<<110, 140>>>>],
    [name |-> <<"b","e","i","g","e">>,
     hex |-> RGB(245, 245, 220), range |-> <<<<25, 45>>>>],
    [name |-> <<"m","i","n","t">>,
     hex |-> RGB(152, 255, 152), range |-> <<<<90, 120>>>>],
    [name |-> <<"l","a","v","e","n","d","e","r">>,
     hex |-> RGB(230, 230, 250), range |-> <<<<170, 200>>>>],
    [name |-> <<"c","o","r","a","l">>,
     hex |-> RGB(255, 127, 80), range |-> <<<<10, 30>>>>]
  >>

\* The names a property read on the plain object colorNames also answers,
\* through Object.prototype, among the strings a token can be (letters a-z).
ObjectPrototypeKeys == { <<"c","o","n","s","t","r","u","c","t","o","r">> }

IsLexiconName(token) == \E i \in 1..Len(colorNames) : colorNames[i].name = token

lexiconEntry(token) ==
  colorNames[CHOOSE i \in 1..Len(colorNames) : colorNames[i].name = token]

\* Truthiness of `colorNames[token]`.
hasColorName(token) == IsLexiconName(token) \/ token \in ObjectPrototypeKeys

\* `colorNames[name].hex`
hexOf(name) == IF IsLexiconName(name) THEN lexiconEntry(name).hex ELSE Undefined

\* `colorNames[name]?.range`; the empty tuple stands for null / undefined.
rangeOf(name) == IF IsLexiconName(name) THEN lexiconEntry(name).range ELSE <<>>

\* The empty tuple stands for null (no token found).
findRawColorName(query) ==
  LET tokens == tokenizeQuery(query)
      hits == {i \in 1..Len(tokens) : hasColorName(tokens[i])}
  IN  IF hits = {} THEN <<>>
      ELSE tokens[CHOOSE i \in hits : \A j \in hits : i <= j]

isSingleRawColorQuery(query) ==
  LET tokens == tokenizeQuery(query)
  IN  Len(tokens) = 1 /\ hasColorName(tokens[1])

(***************************************************************************)
(* blendColors.  weight1 is given in thousandths (800 is 0.8);             *)
(* Math.round(x) is floor(x + 1/2).                                        *)
(***************************************************************************)
\* The channel cut to an integer instead of rounded.
blendChannelTruncated(c1, c2, weight1) ==
  (c1 * weight1 + c2 * (1000 - weight1)) \div 1000

blendChannel(c1, c2, weight1) ==
  (2 * (c1 * weight1 + c2 * (1000 - weight1)) + 1000) \div 2000

blendColors(color1, color2, weight1) ==
  RGB(blendChannel(Red(color1), Red(color2), weight1),
      blendChannel(Green(color1), Green(color2), weight1),
      blendChannel(Blue(color1), Blue(color2), weight1))

(***************************************************************************)
(* shiftHue, in exact rational arithmetic.  With max and min the largest   *)
(* and smallest channel and d = max - min, the code's l, s, q and p        *)
(* satisfy q = max/255 and p = min/255.  The hue on the 0-255 scale is     *)
(* the fraction hn / hd with hd = 2d (hd = 1 for an achromatic colour).    *)
(***************************************************************************)
Max3(a, b, c) == IF a >= b /\ a >= c THEN a ELSE IF b >= c THEN b ELSE c
Min3(a, b, c) == IF a <= b /\ a <= c THEN a ELSE IF b <= c THEN b ELSE c

\* hue255 of a colour, as <<hn, hd>>.
hue255Of(hex) ==
  LET r == Red(hex)
      g == Green(hex)
      b == Blue(hex)
      max == Max3(r, g, b)
      min == Min3(r, g, b)
      d == max - min
      h6 == IF max = r THEN (g - b) + (IF g < b THEN 6 * d ELSE 0)
            ELSE IF max = g THEN (b - r) + 2 * d
            ELSE (r - g) + 4 * d
  IN  IF d = 0 THEN <<0, 1>> ELSE <<85 * h6, 2 * d>>

\* `while (hue255 > max) hue255 = min + (hue255 - max)`
RECURSIVE foldAbove(_, _, _, _)
foldAbove(hn, hd, min, max) ==
  IF hn > max * hd THEN foldAbove(min * hd + (hn - max * hd), hd, min, max)
  ELSE hn

\* One pass of the loop below instead of the loop.
foldBelowOnce(hn, hd, min, max) ==
  IF hn < min * hd THEN max * hd - (min * hd - hn) ELSE hn

\* `while (hue255 < min) hue255 = max - (min - hue255)`
RECURSIVE foldBelow(_, _, _, _)
foldBelow(hn, hd, min, max) ==
  IF hn < min * hd THEN foldBelow(max * hd - (min * hd - hn), hd, min, max)
  ELSE hn

\* The range the hue is in (first match), or the first range.
currentRange(hn, hd, ranges) ==
  LET inside == {i \in 1..Len(ranges) :
                   hn >= ranges[i][1] * hd /\ hn <= ranges[i][2] * hd}
  IN  IF inside = {} THEN ranges[1]
      ELSE ranges[CHOOSE i \in inside : \A j \in inside : i <= j]

\* The shifted hue numerator (over the same hd).
shiftedHue(hn, hd, degree, ranges) ==
  IF ranges # <<>>
  THEN LET cr == currentRange(hn, hd, ranges)
       IN  foldBelow(foldAbove(hn + degree * hd, hd, cr[1], cr[2]),
                     hd, cr[1], cr[2])
  ELSE LET x == hn + degree * hd
       IN  IF x > 255 * hd THEN x - 255 * hd
           ELSE IF x < 0 THEN x + 255 * hd
           ELSE x

\* Math.round(255 * hue2rgb(p, q, t)) with t = tn / (765 * hd), for d > 0.
hue2rgb(min, max, tn0, hd) ==
  LET one == 765 * hd
      t1 == IF tn0 < 0 THEN tn0 + one ELSE tn0
      tn == IF t1 > one THEN t1 - one ELSE t1
      d == max - min
  IN  IF 6 * tn < one THEN (510 * min + 2 * tn + 255) \div 510
      ELSE IF 2 * tn < one THEN max
      ELSE IF 3 * tn < 2 * one
           THEN (510 * min + 2 * (1020 * d - tn) + 255) \div 510
      ELSE min

shiftHue(hex, degree, ranges) ==
  LET max == Max3(Red(hex), Green(hex), Blue(hex))
      min == Min3(Red(hex), Green(hex), Blue(hex))
      hue == hue255Of(hex)
      hd == hue[2]
      hn == shiftedHue(hue[1], hd, degree, ranges)
  IN  IF max = min THEN hex
      ELSE RGB(hue2rgb(min, max, 3 * hn + 255 * hd, hd),
               hue2rgb(min, max, 3 * hn, hd),
               hue2rgb(min, max, 3 * hn - 255 * hd, hd))

(***************************************************************************)
(* Program constants                                                       *)
(***************************************************************************)
cacheTtlMs == 1800000
pageSize == 10
maxPages == 10
FallbackSize == 15
RawWeight == 800
ForcedShift == 30

(***************************************************************************)
(* State                                                                   *)
(***************************************************************************)
VARIABLES
  now,             \* Date.now(), in milliseconds since the server started
  arrays,          \* heap of candidate arrays (a record's `candidates`)
  records,         \* heap of cache record objects; a reference is an index
  candidateCache,  \* the in-memory Map: cache key -> record reference
  shadow,          \* db.data.candidateCache: cache key -> persisted entry
  likes,           \* db.data.likes, oldest first
  requests,        \* the /api/generate handlers: inputs, position, response
  searched,        \* history: <<record, offset>> passed to analyzeColorFromQuery
  session,         \* one client's refinement session (what it was shown)
  mapper,          \* one run of mapWithLimit
  analysis,        \* one run of analyzeColorFromQuery
  saved,           \* db.json: the candidateCache part of the last write
  calc,            \* one call of a pure function: its arguments and result
  client           \* the page script: input box, shown colour, step, request

serverVars ==
  <<now, arrays, records, candidateCache, shadow, likes, requests, searched>>

vars == <<serverVars, session, mapper, analysis, saved, calc, client>>

\* A handler that is not running.  `store` tells how the handler's call of
\* getPopularCandidateForStep ended ("candidate", "none", "threw"), and
\* `emptyPage` that its loop was left by the `break` after an empty page.
IdleRequest ==
  [pc |-> "idle", query |-> <<>>, previousColor |-> Undefined, mode |-> "",
   step |-> 0, isRawOnly |-> FALSE, rawColorName |-> <<>>,
   spectrumRanges |-> <<>>, cache |-> 0,
   status |-> 0, color |-> Undefined, source |-> "", weight |-> 0,
   first |-> Undefined, selected |-> Undefined, index |-> 0,
   listLen |-> 0, fallback |-> FALSE, retried |-> FALSE, shifts |-> 0,
   store |-> "", emptyPage |-> FALSE]

\* A record object nothing refers to any more (garbage).
DeadRecord ==
  [key |-> <<>>, createdAt |-> 0, candidates |-> 0, seen |-> {},
   pagesLoaded |-> 0]

(***************************************************************************)
(* Candidate store                                                         *)
(***************************************************************************)
\* `${q}||${a}`
getCacheKey(query, analysisQuery) ==
  trim(toLowerCase(query)) \o <<"|", "|">> \o trim(toLowerCase(analysisQuery))

\* An entry written without the seen set.
persistedEntryUnseen(rec) ==
  [createdAt |-> rec.createdAt, candidates |-> rec.candidates,
   seen |-> {}, pagesLoaded |-> rec.pagesLoaded]

\* The entry persistCachedEntry writes into db.data.candidateCache: the
\* candidates array itself (no copy), a copy of the seen set, the numbers.
persistedEntry(rec) ==
  [createdAt |-> rec.createdAt, candidates |-> rec.candidates,
   seen |-> rec.seen, pagesLoaded |-> rec.pagesLoaded]

persistCachedEntry(sh, rec) ==
  [k \in DOMAIN sh \cup {rec.key} |->
     IF k = rec.key THEN persistedEntry(rec) ELSE sh[k]]

\* loadCachedEntry: a new record object around the persisted entry's array.
loadCachedEntry(key) ==
  [key |-> key, createdAt |-> shadow[key].createdAt,
   candidates |-> shadow[key].candidates, seen |-> shadow[key].seen,
   pagesLoaded |-> shadow[key].pagesLoaded]

\* A deviating variant of IsFresh that still accepts a record whose age is
\* exactly the TTL; C15 must tell it from the comparison of the code.
IsFreshInclusive(createdAt) == now - createdAt <= cacheTtlMs

IsFresh(createdAt) == now - createdAt < cacheTtlMs

\* getCandidateCache: the record reference it returns and the heaps, map
\* and shadow it leaves behind.
getCandidateCache(query, analysisQuery) ==
  LET key == getCacheKey(query, analysisQuery)
      same == [id |-> 0, arrays |-> arrays, records |-> records,
               candidateCache |-> candidateCache, shadow |-> shadow]
  IN  IF key \in DOMAIN candidateCache
         /\ IsFresh(records[candidateCache[key]].createdAt)
      THEN [same EXCEPT !.id = candidateCache[key]]
      ELSE IF key \in DOMAIN shadow /\ IsFresh(shadow[key].createdAt)
      THEN LET id == Len(records) + 1
           IN  [same EXCEPT
                  !.id = id,
                  !.records = Append(records, loadCachedEntry(key)),
                  !.candidateCache =
                     [k \in DOMAIN candidateCache \cup {key} |->
                        IF k = key THEN id ELSE candidateCache[k]]]
      ELSE LET id == Len(records) + 1
               fresh == [key |-> key, createdAt |-> now,
                         candidates |-> Len(arrays) + 1, seen |-> {},
                         pagesLoaded |-> 0]
           IN  [id |-> id,
                arrays |-> Append(arrays, <<>>),
                records |-> Append(records, fresh),
                candidateCache |->
                   [k \in DOMAIN candidateCache \cup {key} |->
                      IF k = key THEN id ELSE candidateCache[k]],
                shadow |-> persistCachedEntry(shadow, fresh)]

\* A deviating variant of appendUnseen that pushes every candidate, seen or
\* not; C8 must tell it from the loop.
RECURSIVE appendAll(_, _, _)
appendAll(page, seen, list) ==
  IF page = <<>> THEN [seen |-> seen, list |-> list]
  ELSE appendAll(Tail(page), seen \cup {Head(page)}, Append(list, Head(page)))

\* A deviating variant of appendUnseen that puts an unseen candidate in
\* front of the list; C7 must tell it from the loop.
RECURSIVE prependUnseen(_, _, _)
prependUnseen(page, seen, list) ==
  IF page = <<>> THEN [seen |-> seen, list |-> list]
  ELSE IF Head(page) \in seen
       THEN prependUnseen(Tail(page), seen, list)
       ELSE prependUnseen(Tail(page), seen \cup {Head(page)},
                          <<Head(page)>> \o list)

\* The for-loop of getPopularCandidateForStep over one page: every
\* candidate not yet seen is added to seen and pushed.
RECURSIVE appendUnseen(_, _, _)
appendUnseen(page, seen, list) ==
  IF page = <<>> THEN [seen |-> seen, list |-> list]
  ELSE IF Head(page) \in seen
       THEN appendUnseen(Tail(page), seen, list)
       ELSE appendUnseen(Tail(page), seen \cup {Head(page)},
                         Append(list, Head(page)))

\* A deviating variant of targetIndexOf that always reads the first
\* candidate; C2 must tell it from the store.
targetIndexZero(step) == 0

targetIndexOf(step) == IF step > 0 THEN step ELSE 0

\* A deviating variant of needsPage that stops paging as soon as the list
\* is as long as the step; C14 must tell it from the loop condition.
needsPageShort(list, rec, step) ==
  Len(list) < targetIndexOf(step) /\ rec.pagesLoaded < maxPages

\* The loop condition without its test of pagesLoaded.
needsPageUncounted(list, rec, step) == Len(list) <= targetIndexOf(step)

\* The loop condition of getPopularCandidateForStep.
needsPage(list, rec, step) ==
  Len(list) <= targetIndexOf(step) /\ rec.pagesLoaded < maxPages

\* What getPopularCandidateForStep returns once its loop has ended.
storeResult(list, step) ==
  IF Len(list) > targetIndexOf(step)
  THEN [found |-> TRUE, candidate |-> list[targetIndexOf(step) + 1],
        candidates |-> list, index |-> targetIndexOf(step), threw |-> FALSE]
  ELSE [found |-> FALSE, candidate |-> Undefined,
        candidates |-> list, index |-> targetIndexOf(step), threw |-> FALSE]

\* The result seen by the handler when analysis threw: nothing was assigned.
NoResult ==
  [found |-> FALSE, candidate |-> Undefined, candidates |-> <<>>, index |-> 0,
   threw |-> TRUE]

(***************************************************************************)
(* Selection engine: the synchronous computations of the handler           *)
(***************************************************************************)
\* The 15 colours pushed by `candidates.push(getHashColor(normalizedQuery + i))`.
fallbackList(normalizedQuery) ==
  [i \in 1..FallbackSize |->
     getHashColor(normalizedQuery \o numberToString(i - 1))]

\* The query strings the specifications send, as typed.
qRed == <<"R","e","d">>
qOceanBlue == <<"o","c","e","a","n"," ","b","l","u","e">>
qOceanBlueTyped == <<" ","O","c","e","a","n"," ","B","l","u","e">>
qConstructor == <<"c","o","n","s","t","r","u","c","t","o","r">>
qXyzzy == <<"x","y","z","z","y">>
qOceanBlueUpper == <<"O","C","E","A","N"," ","B","L","U","E">>
qBlank == <<" ">>

\* The 15-entry lists of the queries the specifications send, computed once.
fallbackLists ==
  [q \in {trim(query) : query \in {qRed, qOceanBlueTyped, qConstructor, qXyzzy}}
     |-> fallbackList(q)]

fallbackListOf(normalizedQuery) ==
  IF normalizedQuery \in DOMAIN fallbackLists
  THEN fallbackLists[normalizedQuery]
  ELSE fallbackList(normalizedQuery)

\* `isRawOnly ? findRawColorName(normalizedQuery) : null`
rawColorNameOf(isRawOnly, normalizedQuery) ==
  IF isRawOnly THEN findRawColorName(normalizedQuery) ELSE <<>>

\* `spectrumColorName ? colorNames[spectrumColorName]?.range : null`
spectrumRangesOf(normalizedQuery) ==
  LET spectrumColorName == findRawColorName(normalizedQuery)
  IN  IF spectrumColorName # <<>> THEN rangeOf(spectrumColorName) ELSE <<>>

\* The handler's locals of lines 315-326, set once per request.
withLocals(req, normalizedQuery) ==
  [req EXCEPT
     !.query = normalizedQuery,
     !.isRawOnly = isSingleRawColorQuery(normalizedQuery),
     !.rawColorName =
        rawColorNameOf(isSingleRawColorQuery(normalizedQuery), normalizedQuery),
     !.spectrumRanges = spectrumRangesOf(normalizedQuery)]

\* A deviating variant of learnedColor that takes the oldest matching like;
\* C20 must tell it from `.slice().reverse().find(...)`.
learnedColorOldest(normalizedQuery) ==
  LET hits == {i \in 1..Len(likes) :
                 toLowerCase(likes[i].query) = toLowerCase(normalizedQuery)}
  IN  IF hits = {} THEN Undefined
      ELSE likes[CHOOSE i \in hits : \A j \in hits : i <= j].color

\* The most recent like whose query equals the request's, ignoring case;
\* Undefined when there is none.
learnedColor(normalizedQuery) ==
  LET hits == {i \in 1..Len(likes) :
                 toLowerCase(likes[i].query) = toLowerCase(normalizedQuery)}
  IN  IF hits = {} THEN Undefined
      ELSE likes[CHOOSE i \in hits : \A j \in hits : j <= i].color

\* A deviating variant of earlyReturn that looks at the likes first; C3 must
\* tell it from the handler.
earlyReturnLearnedFirst(isRawOnly, normalizedQuery, mode, step) ==
  IF mode = "" /\ step = 0 /\ learnedColor(normalizedQuery) # Undefined
  THEN "learned"
  ELSE IF isRawOnly THEN "raw_exact"
  ELSE "none"

\* Which of the two early returns the handler takes, if any.
earlyReturn(isRawOnly, normalizedQuery, mode, step) ==
  IF isRawOnly THEN "raw_exact"
  ELSE IF mode = "" /\ step = 0 /\ learnedColor(normalizedQuery) # Undefined
       THEN "learned"
  ELSE "none"

\* The search string given to the candidate store.
analysisQueryOf(normalizedQuery, mode, rawColorName) ==
  IF mode = "refine" /\ rawColorName # <<>>
  THEN normalizedQuery
         \o <<" ","1","0"," ","p","e","r","c","e","n","t"," ",
              "m","o","r","e"," ">>
         \o rawColorName
  ELSE normalizedQuery

\* `finalColor = blendColors(rawColorData.hex, selectedAnalyzedColor, weight)`
\* when rawColorData is set, else the selected colour.
blendStep(rawColorName, selected) ==
  IF rawColorName # <<>>
  THEN blendColors(hexOf(rawColorName), selected, RawWeight)
  ELSE selected

\* The colour left as it is, whatever the ranges.
clampStepSkipped(spectrumRanges, color) == color

\* `if (spectrumRanges) finalColor = shiftHue(finalColor, 0, spectrumRanges)`
clampStep(spectrumRanges, color) ==
  IF spectrumRanges # <<>> THEN shiftHue(color, 0, spectrumRanges) ELSE color

\* `previousColor && finalColor.toUpperCase() === previousColor.toUpperCase()`
collides(previousColor, finalColor) ==
  previousColor # Undefined /\ finalColor = previousColor

\* A deviating variant of fallbackIndex that reads one entry further; C6
\* must tell it from the handler.
fallbackIndexNext(step) == (step + 1) % FallbackSize

\* The index the fallback list is read at.
fallbackIndex(step) == step % FallbackSize

\* The same index again instead of the next one.
nextIndexSame(candidateIndex, length) == candidateIndex

\* The index tried after a collision.
nextIndexOf(candidateIndex, length) == (candidateIndex + 1) % length

\* The response of a handler that went through selection.
respond(req, candidates, candidateIndex, fallback, selected, retried, shifts, finalColor) ==
  [req EXCEPT
     !.pc = "done", !.status = 200, !.color = finalColor,
     !.source = IF req.rawColorName # <<>> THEN "weighted_raw"
                ELSE "analyzed_candidate",
     !.weight = IF req.rawColorName # <<>> THEN RawWeight ELSE 0,
     !.first = candidates[candidateIndex + 1], !.selected = selected,
     !.index = candidateIndex, !.listLen = Len(candidates),
     !.fallback = fallback, !.retried = retried, !.shifts = shifts]

\* "Final failsafe": a colour that still equals previousColor is shifted.
failsafe(req, candidates, candidateIndex, fallback, selected, retried, shifts, finalColor) ==
  IF collides(req.previousColor, finalColor)
  THEN respond(req, candidates, candidateIndex, fallback, selected, retried,
               shifts + 1,
               shiftHue(finalColor, ForcedShift, req.spectrumRanges))
  ELSE respond(req, candidates, candidateIndex, fallback, selected, retried,
               shifts, finalColor)

\* Collision avoidance: on a collision the next candidate is blended and
\* clamped when the list has more than one entry, else the colour is shifted.
avoidCollision(req, candidates, candidateIndex, fallback, finalColor) ==
  IF ~collides(req.previousColor, finalColor)
  THEN failsafe(req, candidates, candidateIndex, fallback,
                candidates[candidateIndex + 1], FALSE, 0, finalColor)
  ELSE IF Len(candidates) > 1
  THEN failsafe(req, candidates, candidateIndex, fallback,
                candidates[nextIndexOf(candidateIndex, Len(candidates)) + 1],
                TRUE, 0,
                clampStep(req.spectrumRanges,
                  blendStep(req.rawColorName,
                    candidates[nextIndexOf(candidateIndex, Len(candidates)) + 1])))
  ELSE failsafe(req, candidates, candidateIndex, fallback,
                candidates[candidateIndex + 1], FALSE, 1,
                shiftHue(finalColor, ForcedShift, req.spectrumRanges))

\* Blend and clamp of the candidate at candidateIndex, then the collision
\* handling.
combine(req, candidates, candidateIndex, fallback) ==
  avoidCollision(req, candidates, candidateIndex, fallback,
                 clampStep(req.spectrumRanges,
                           blendStep(req.rawColorName,
                                     candidates[candidateIndex + 1])))

\* The handler from the end of its try/catch to its response: the store's
\* candidate, or else the fallback list read at step mod 15.
selectColor(req, result) ==
  IF result.found
  THEN combine([req EXCEPT !.store = "candidate"],
               result.candidates, result.index, FALSE)
  ELSE combine([req EXCEPT !.store = IF result.threw THEN "threw" ELSE "none"],
               fallbackListOf(req.query), fallbackIndex(req.step), TRUE)

\* One evaluation of the paging loop's condition for the handler `req`
\* holding record `rec` whose candidates array reads `list`: either the
\* next page is asked for, or the store returns and the handler responds.
loopOrRespond(req, rec, list) ==
  IF needsPage(list, rec, req.step)
  THEN [req EXCEPT !.pc = "analyzing"]
  ELSE selectColor(req, storeResult(list, req.step))

\* The record of analyzeColorFromQuery calls, extended by the call a
\* handler that now awaits a page has just made: offset pagesLoaded * pageSize.
searchedAfter(req, rec) ==
  IF req.pc = "analyzing"
  THEN searched \cup {<<req.cache, rec.pagesLoaded * pageSize>>}
  ELSE searched

(***************************************************************************)
(* Garbage: a record object is reachable from the Map or from a handler    *)
(* inside getPopularCandidateForStep, an array from a reachable record or  *)
(* from db.data.  What is unreachable cannot be observed again.            *)
(***************************************************************************)
liveRecords(cc, reqs) ==
  {cc[k] : k \in DOMAIN cc}
    \cup {reqs[r].cache :
            r \in {x \in DOMAIN reqs : reqs[x].pc \in {"analyzing", "persisting"}}}

sweepRecords(recs, cc, reqs) ==
  [i \in 1..Len(recs) |->
     IF i \in liveRecords(cc, reqs) THEN recs[i] ELSE DeadRecord]

sweepArrays(arrs, recs, sh) ==
  [i \in 1..Len(arrs) |->
     IF i \in {recs[j].candidates : j \in 1..Len(recs)}
               \cup {sh[k].candidates : k \in DOMAIN sh}
     THEN arrs[i] ELSE <<>>]

sweepSearched(s, recs) == {e \in s : recs[e[1]] # DeadRecord}

\* The next state of the store and the handlers.
StoreUpdate(newRequests, newCache, newShadow, newRecords, newArrays, newSearched) ==
  /\ requests' = newRequests
  /\ candidateCache' = newCache
  /\ shadow' = newShadow
  /\ records' = sweepRecords(newRecords, candidateCache', requests')
  /\ arrays' = sweepArrays(newArrays, records', shadow')
  /\ searched' = sweepSearched(newSearched, records')

(***************************************************************************)
(* Actions.  A handler runs without interleaving between two awaits, so    *)
(* each action is one such stretch of app.post('/api/generate') together   *)
(* with the store functions it calls.                                      *)
(***************************************************************************)

\* POST /api/generate arrives: validation, the two early returns,
\* getCandidateCache, and the first evaluation of the paging loop.
GenerateStart(r, query, previousColor, mode, step) ==
  /\ requests[r].pc = "idle"
  /\ IF trim(query) = <<>>
     THEN /\ requests' = [requests EXCEPT
                            ![r] = [IdleRequest EXCEPT
                                      !.pc = "done", !.status = 400,
                                      !.previousColor = previousColor,
                                      !.mode = mode, !.step = step]]
          /\ UNCHANGED <<arrays, records, candidateCache, shadow, searched>>
     ELSE \E req \in {withLocals([IdleRequest EXCEPT
                                    !.previousColor = previousColor,
                                    !.mode = mode, !.step = step],
                                 trim(query))} :
          \E early \in {earlyReturn(req.isRawOnly, req.query, mode, step)} :
            IF early = "raw_exact"
            THEN /\ requests' = [requests EXCEPT
                                   ![r] = [req EXCEPT
                                             !.pc = "done", !.status = 200,
                                             !.color = hexOf(req.rawColorName),
                                             !.source = "raw_exact"]]
                 /\ UNCHANGED <<arrays, records, candidateCache, shadow, searched>>
            ELSE IF early = "learned"
            THEN /\ requests' = [requests EXCEPT
                                   ![r] = [req EXCEPT
                                             !.pc = "done", !.status = 200,
                                             !.color = learnedColor(req.query),
                                             !.source = "learned"]]
                 /\ UNCHANGED <<arrays, records, candidateCache, shadow, searched>>
            ELSE \E got \in {getCandidateCache(req.query,
                               analysisQueryOf(req.query, mode, req.rawColorName))} :
                 \E rec \in {got.records[got.id]} :
                 \E next \in {loopOrRespond([req EXCEPT !.cache = got.id], rec,
                                            got.arrays[rec.candidates])} :
                   StoreUpdate([requests EXCEPT ![r] = next], got.candidateCache,
                               got.shadow, got.records, got.arrays,
                               searchedAfter(next, rec))
  /\ UNCHANGED <<now, likes>>

\* analyzeColorFromQuery resolves with `page` (the empty tuple for null or
\* an empty list): the loop body, and, unless it awaits the save, the next
\* evaluation of the loop condition.
AnalysisReturns(r, page) ==
  /\ requests[r].pc = "analyzing"
  /\ \E req \in {requests[r]} :
     \E rec \in {records[req.cache]} :
     \E added \in {appendUnseen(page, rec.seen, arrays[rec.candidates])} :
     \E rec1 \in {[rec EXCEPT !.pagesLoaded = @ + 1, !.seen = added.seen]} :
     \E changed \in {added.list # arrays[rec.candidates]} :
     \E next \in {IF page = <<>>
                  THEN selectColor([req EXCEPT !.emptyPage = TRUE],
                                   storeResult(added.list, req.step))
                  ELSE IF changed THEN [req EXCEPT !.pc = "persisting"]
                  ELSE loopOrRespond(req, rec1, added.list)} :
       StoreUpdate([requests EXCEPT ![r] = next], candidateCache,
                   IF changed THEN persistCachedEntry(shadow, rec1) ELSE shadow,
                   [records EXCEPT ![req.cache] = rec1],
                   [arrays EXCEPT ![rec.candidates] = added.list],
                   searchedAfter(next, rec1))
  /\ UNCHANGED <<now, likes>>

\* analyzeColorFromQuery rejects: the handler's catch leaves its candidate
\* list empty, and it answers from the fallback list.
AnalysisThrows(r) ==
  /\ requests[r].pc = "analyzing"
  /\ \E req \in {requests[r]} :
       StoreUpdate([requests EXCEPT ![r] = selectColor(req, NoResult)],
                   candidateCache, shadow, records, arrays, searched)
  /\ UNCHANGED <<now, likes>>

\* `await persistCachedEntry(cache)` resumes (db.update resolved, or it
\* failed and the failure was logged): the loop condition is evaluated.
PersistReturns(r) ==
  /\ requests[r].pc = "persisting"
  /\ \E req \in {requests[r]} :
     \E rec \in {records[req.cache]} :
     \E next \in {loopOrRespond(req, rec, arrays[rec.candidates])} :
       StoreUpdate([requests EXCEPT ![r] = next], candidateCache, shadow,
                   records, arrays, searchedAfter(next, rec))
  /\ UNCHANGED <<now, likes>>

\* A deviating variant of afterSaveFailure in which the rejection of
\* db.update leaves persistCachedEntry and reaches the handler's catch; C17
\* must tell it from the try/catch of persistCachedEntry.
afterSaveFailureThrown(req, rec, list) == selectColor(req, NoResult)

\* The handler after db.update was rejected: persistCachedEntry catches and
\* logs, and the paging loop goes on.
afterSaveFailure(req, rec, list) == loopOrRespond(req, rec, list)

\* `await persistCachedEntry(cache)` resumes after db.update was rejected.
PersistFails(r) ==
  /\ requests[r].pc = "persisting"
  /\ \E req \in {requests[r]} :
     \E rec \in {records[req.cache]} :
     \E next \in {afterSaveFailure(req, rec, arrays[rec.candidates])} :
       StoreUpdate([requests EXCEPT ![r] = next], candidateCache, shadow,
                   records, arrays, searchedAfter(next, rec))
  /\ UNCHANGED <<now, likes>>

\* What a write of db.data puts into db.json: every array by its content.
diskImage(sh, arrs) ==
  [k \in DOMAIN sh |->
     [createdAt |-> sh[k].createdAt, candidates |-> arrs[sh[k].candidates],
      seen |-> sh[k].seen, pagesLoaded |-> sh[k].pagesLoaded]]

\* db.update has written db.data.
Written == saved' = diskImage(shadow', arrays')

\* db.data as JSONFilePreset reads it from db.json: a new array per entry.
RECURSIVE loadDb(_, _, _)
loadDb(keys, sh, arrs) ==
  IF keys = {} THEN [shadow |-> sh, arrays |-> arrs]
  ELSE LET k == CHOOSE x \in keys : TRUE
       IN  loadDb(keys \ {k},
                  [x \in DOMAIN sh \cup {k} |->
                     IF x = k
                     THEN [saved[k] EXCEPT !.candidates = Len(arrs) + 1]
                     ELSE sh[x]],
                  Append(arrs, saved[k].candidates))

\* The server process is started again: the Map is empty, the handlers of
\* the old process are gone, db.data is what db.json holds.
Restart ==
  /\ \E db \in {loadDb(DOMAIN saved, <<>>, <<>>)} :
       /\ shadow' = db.shadow
       /\ arrays' = db.arrays
  /\ candidateCache' = <<>>
  /\ records' = <<>>
  /\ searched' = {}
  /\ requests' = [r \in DOMAIN requests |-> IdleRequest]
  /\ UNCHANGED <<now, likes, saved>>

\* The response has been sent; the slot serves the next request.
Complete(r) ==
  /\ requests[r].pc = "done"
  /\ requests' = [requests EXCEPT ![r] = IdleRequest]
  /\ UNCHANGED <<now, arrays, records, candidateCache, shadow, likes, searched>>

\* POST /api/feedback with rating 'like'.
Feedback(query, color) ==
  /\ likes' = Append(likes, [query |-> query, color |-> color])
  /\ UNCHANGED <<now, arrays, records, candidateCache, shadow, requests, searched>>

\* Time passes.
Tick(ms) ==
  /\ now' = now + ms
  /\ UNCHANGED <<arrays, records, candidateCache, shadow, likes, requests, searched>>

(***************************************************************************)
(* The browser client of one refinement session (generateColor and         *)
(* generateSimilar): the first request carries no mode and step 0, every   *)
(* later one mode 'refine', the colour on screen and the next step.        *)
(***************************************************************************)
NoSession ==
  [step |-> 0, last |-> Undefined, shown |-> {}, cache |-> 0,
   stored |-> TRUE, repeated |-> FALSE]

\* The request body JSON.stringify produces for the session's next request.
sessionMode(s) == IF s.step = 0 THEN "" ELSE "refine"

\* shifted.toString(16): the hexadecimal digits of a number, without
\* leading zeros.
RECURSIVE toString16(_)
toString16(n) ==
  LET digit == SubSeq(<<"0","1","2","3","4","5","6","7","8","9",
                        "A","B","C","D","E","F">>, (n % 16) + 1, (n % 16) + 1)
  IN  IF n < 16 THEN digit ELSE toString16(n \div 16) \o digit

\* str.padStart(6, '0')
RECURSIVE padStart6(_)
padStart6(str) == IF Len(str) >= 6 THEN str ELSE padStart6(<<"0">> \o str)

\* The collision check with the remainder taken modulo 2^24.
displayedModulo24(previousColor, color) ==
  IF previousColor # Undefined /\ color = previousColor
  THEN (color + RGB(51, 51, 51)) % 16777216
  ELSE color

\* The client-side collision check: a colour equal to the one sent as
\* previousColor is replaced by (num + 0x333333) % 0xFFFFFF.
displayed(previousColor, color) ==
  IF previousColor # Undefined /\ color = previousColor
  THEN (color + RGB(51, 51, 51)) % RGB(255, 255, 255)
  ELSE color

\* The session after the response `req` has been received: the colour on
\* screen, and the colours the server returned.
sessionAfter(s, req) ==
  [step |-> s.step + 1,
   last |-> displayed(s.last, req.color),
   shown |-> s.shown \cup {req.color},
   cache |-> req.cache,
   stored |-> /\ s.stored
              /\ req.source = "analyzed_candidate"
              /\ ~req.fallback
              /\ (s.step = 0 \/ s.cache = req.cache),
   repeated |-> s.repeated \/ req.color \in s.shown]

(***************************************************************************)
(* mapWithLimit(items, limit, mapper): `index` is shared by the workers,   *)
(* each worker is at its `await mapper(...)` or has left its loop.         *)
(***************************************************************************)
IdleMapper ==
  [phase |-> "idle", items |-> 0, limit |-> 0, index |-> 0,
   workers |-> <<>>, results |-> <<>>, calls |-> <<>>, outcomes |-> <<>>]

EmptySlot == [kind |-> "empty", of |-> 0]
NullResult == [kind |-> "null", of |-> 0]
valueOf(item) == [kind |-> "value", of |-> item]

\* A deviating variant of workerCount that starts a worker per item; C10
\* must tell it from mapWithLimit.
workerCountAll(limit, items) == items

\* Math.min(limit, items.length), the length of the workers array.
workerCount(limit, items) == IF limit < items THEN limit ELSE items

\* A deviating variant of settled that stores a value whatever the mapper
\* call did; C12 must tell it from the worker's try/catch.
settledAsValue(outcome, current) == valueOf(current)

\* What a worker stores when its mapper call settles.
settled(outcome, current) ==
  IF outcome = "value" THEN valueOf(current) ELSE NullResult

\* A deviating variant of claim that advances the shared index by two;
\* C11 must tell it from `index++`.
claimSkip(m, w) ==
  IF m.index >= m.items
  THEN [m EXCEPT !.index = @ + 2,
                 !.workers[w] = [pc |-> "finished", current |-> m.index]]
  ELSE [m EXCEPT !.index = @ + 2,
                 !.workers[w] = [pc |-> "awaiting", current |-> m.index],
                 !.calls[m.index + 1] = @ + 1]

\* A worker's `const current = index++` and the test that follows.
claim(m, w) ==
  IF m.index >= m.items
  THEN [m EXCEPT !.index = @ + 1,
                 !.workers[w] = [pc |-> "finished", current |-> m.index]]
  ELSE [m EXCEPT !.index = @ + 1,
                 !.workers[w] = [pc |-> "awaiting", current |-> m.index],
                 !.calls[m.index + 1] = @ + 1]

\* The call: the results array is allocated and Array.from runs every
\* worker up to its first await, one after the other.
RECURSIVE startWorkers(_, _)
startWorkers(m, w) ==
  IF w > Len(m.workers) THEN m ELSE startWorkers(claim(m, w), w + 1)

MapStart(items, limit) ==
  /\ mapper.phase = "idle"
  /\ mapper' =
       startWorkers(
         [phase |-> "running", items |-> items, limit |-> limit, index |-> 0,
          workers |-> [w \in 1..workerCount(limit, items) |->
                         [pc |-> "new", current |-> 0]],
          results |-> [i \in 1..items |-> EmptySlot],
          calls |-> [i \in 1..items |-> 0],
          outcomes |-> [i \in 1..items |-> "none"]], 1)

\* The mapper call of worker w settles (a value, null, or a rejection); the
\* worker stores the result and claims the next index.  `outcomes` keeps
\* what each call did, `calls` how often the mapper was called per item.
MapperSettles(w, outcome) ==
  /\ mapper.phase = "running"
  /\ w \in DOMAIN mapper.workers
  /\ mapper.workers[w].pc = "awaiting"
  /\ mapper' =
       claim([mapper EXCEPT
                !.results[mapper.workers[w].current + 1] =
                   settled(outcome, mapper.workers[w].current + 1),
                !.outcomes[mapper.workers[w].current + 1] = outcome], w)

\* Promise.all(workers) resolves and the results are returned.
MapReturn ==
  /\ mapper.phase = "running"
  /\ \A w \in DOMAIN mapper.workers : mapper.workers[w].pc = "finished"
  /\ mapper' = [mapper EXCEPT !.phase = "returned"]

\* The caller has consumed the results.
MapReset ==
  /\ mapper.phase = "returned"
  /\ mapper' = IdleMapper

\* Mapper calls in flight.
inFlight == {w \in DOMAIN mapper.workers : mapper.workers[w].pc = "awaiting"}

(***************************************************************************)
(* analyzeColorFromQuery: the image search, then the classification of     *)
(* the page's images by the vision model (through mapWithLimit) and, when  *)
(* that produced no colour or no key is configured, by getDominantColor.   *)
(* `images` holds the position of each getDominantColor call: at its       *)
(* fetch, at its body read, or settled with a colour or with null.         *)
(***************************************************************************)
GeminiLimit == 3

IdleAnalysis ==
  [phase |-> "idle", key |-> FALSE, model |-> FALSE, urls |-> 0,
   images |-> <<>>, found |-> FALSE]

\* `return null` and `return candidates`.
returnsNull(a) == [a EXCEPT !.phase = "returned", !.found = FALSE]
returnsCandidates(a) == [a EXCEPT !.phase = "returned", !.found = TRUE]

\* urls.map(url => getDominantColor(url)): every call runs to its fetch.
startDominant(a) ==
  [a EXCEPT !.phase = "dominant", !.images = [i \in 1..a.urls |-> "fetch"]]

\* The call: searchImages runs to its `await fetch(bingUrl, ...)`, the
\* 3 s abort timer armed.
AnalyzeStart ==
  /\ analysis.phase = "idle"
  /\ analysis' = [analysis EXCEPT !.phase = "searching"]

\* The search fetch is rejected or answers with a status that is not ok:
\* searchImages catches, returns [], and the analysis returns null.
SearchFails ==
  /\ analysis.phase = "searching"
  /\ analysis' = returnsNull(analysis)

\* The abort timer fires before the search answered: the fetch is rejected.
SearchTimesOut ==
  /\ analysis.phase = "searching"
  /\ analysis' = returnsNull(analysis)

\* The search answers ok: the timer is cleared, `await response.text()`.
SearchResponds ==
  /\ analysis.phase = "searching"
  /\ analysis' = [analysis EXCEPT !.phase = "reading"]

\* The body has been read and holds n image urls.
SearchRead(n) ==
  /\ analysis.phase = "reading"
  /\ analysis' =
       IF n = 0 THEN returnsNull(analysis)
       ELSE IF analysis.key
       THEN [analysis EXCEPT !.phase = "listing", !.urls = n]
       ELSE startDominant([analysis EXCEPT !.urls = n])

\* `await fetchGeminiModel()` settles: with a model name, with null, or
\* rejected (the rejection leaves analyzeColorFromQuery); then mapWithLimit
\* is called with limit 3.
ModelListAnswers(outcome) ==
  /\ analysis.phase = "listing"
  /\ IF outcome = "throw"
     THEN /\ analysis' = [analysis EXCEPT !.phase = "threw"]
          /\ UNCHANGED mapper
     ELSE /\ analysis' = [analysis EXCEPT !.phase = "mapping",
                                          !.model = (outcome = "model")]
          /\ MapStart(analysis.urls, GeminiLimit)

\* An analyzeImageWithGemini call settles; without a model it returns null.
GeminiSettles(w, outcome) ==
  /\ analysis.phase = "mapping"
  /\ analysis.model \/ outcome = "null"
  /\ MapperSettles(w, outcome)
  /\ UNCHANGED analysis

\* mapWithLimit has returned: the colours are counted; with none counted
\* the dominant-colour analysis starts.
GeminiCollected ==
  /\ analysis.phase = "mapping"
  /\ MapReset
  /\ analysis' =
       IF \E i \in DOMAIN mapper.results : mapper.results[i].kind = "value"
       THEN returnsCandidates(analysis)
       ELSE startDominant(analysis)

\* The image fetch of getDominantColor call i answers ok: the timer is
\* cleared, `await response.arrayBuffer()`.
DominantResponds(i) ==
  /\ analysis.phase = "dominant"
  /\ i \in DOMAIN analysis.images
  /\ analysis.images[i] = "fetch"
  /\ analysis' = [analysis EXCEPT !.images[i] = "body"]

\* The image fetch is rejected or not ok (or the url is skipped): null.
DominantFails(i) ==
  /\ analysis.phase = "dominant"
  /\ i \in DOMAIN analysis.images
  /\ analysis.images[i] = "fetch"
  /\ analysis' = [analysis EXCEPT !.images[i] = "null"]

\* The 4 s abort timer of call i fires before the image fetch answered.
DominantTimesOut(i) ==
  /\ analysis.phase = "dominant"
  /\ i \in DOMAIN analysis.images
  /\ analysis.images[i] = "fetch"
  /\ analysis' = [analysis EXCEPT !.images[i] = "null"]

\* The image body has arrived and was quantized: a colour, or null.
DominantBody(i, outcome) ==
  /\ analysis.phase = "dominant"
  /\ i \in DOMAIN analysis.images
  /\ analysis.images[i] = "body"
  /\ analysis' = [analysis EXCEPT !.images[i] = outcome]

\* Promise.allSettled resolves: the colours are counted.
DominantCollected ==
  /\ analysis.phase = "dominant"
  /\ \A i \in DOMAIN analysis.images : analysis.images[i] \in {"color", "null"}
  /\ analysis' =
       IF \E i \in DOMAIN analysis.images : analysis.images[i] = "color"
       THEN returnsCandidates([analysis EXCEPT !.images = <<>>])
       ELSE returnsNull([analysis EXCEPT !.images = <<>>])

\* The analysis a finished call leaves for the next one.
nextAnalysis == [IdleAnalysis EXCEPT !.key = analysis.key]

\* getDominantColor calls in flight, and all image classifications in flight.
inFlightImages ==
  {i \in DOMAIN analysis.images : analysis.images[i] \in {"fetch", "body"}}

classifying == Cardinality(inFlight) + Cardinality(inFlightImages)

(***************************************************************************)
(* Calls of the pure functions.  `calc` holds the arguments of one call    *)
(* and what the call computed.                                             *)
(***************************************************************************)
NoCall == [fn |-> ""]

\* The arguments of a call that has not run yet.
shiftHueArgs(hex, degree, ranges) ==
  [fn |-> "shiftHueArgs", hex |-> hex, degree |-> degree, ranges |-> ranges]

\* shiftHue(hex, degree, ranges): `hue` is hue255 as the code computes it
\* from hex, `shifted` is hue255 when the code divides it by 255 again.
ShiftHueCalled ==
  /\ calc.fn = "shiftHueArgs"
  /\ \E hue \in {hue255Of(calc.hex)} :
       calc' = [fn |-> "shiftHue", hex |-> calc.hex, degree |-> calc.degree,
                ranges |-> calc.ranges, hue |-> hue,
                shifted |-> shiftedHue(hue[1], hue[2], calc.degree,
                                       calc.ranges),
                out |-> shiftHue(calc.hex, calc.degree, calc.ranges)]

\* The hue just computed goes through shiftHue's arithmetic again with the
\* opposite degree (no ranges).
ShiftHueBack ==
  /\ calc.fn = "shiftHue"
  /\ calc.ranges = <<>>
  /\ calc' = [fn |-> "shiftHueBack", hex |-> calc.hex,
              degree |-> calc.degree, ranges |-> calc.ranges,
              hue |-> calc.hue, shifted |-> calc.shifted, out |-> calc.out,
              back |-> shiftedHue(calc.shifted, calc.hue[2],
                                  0 - calc.degree, calc.ranges)]

\* shiftHue with one range, stopped where it enters `while (hue255 > max)`:
\* hue255 (hn / hd) already has the degree added.
shiftHueLoop(hex, degree, range) ==
  LET hue == hue255Of(hex)
      cr == currentRange(hue[1], hue[2], <<range>>)
  IN  [fn |-> "shiftHueLoop", pc |-> "above", hex |-> hex,
       degree |-> degree, hn |-> hue[1] + degree * hue[2], hd |-> hue[2],
       min |-> cr[1], max |-> cr[2]]

\* One test of `while (hue255 > max) hue255 = min + (hue255 - max)`, and
\* the body when the test holds.
LoopAbove ==
  /\ calc.fn = "shiftHueLoop"
  /\ calc.pc = "above"
  /\ calc' = IF calc.hn > calc.max * calc.hd
             THEN [calc EXCEPT !.hn = calc.min * calc.hd
                                        + (calc.hn - calc.max * calc.hd)]
             ELSE [calc EXCEPT !.pc = "below"]

\* One test of `while (hue255 < min) hue255 = max - (min - hue255)`, and
\* the body when the test holds.
LoopBelow ==
  /\ calc.fn = "shiftHueLoop"
  /\ calc.pc = "below"
  /\ calc' = IF calc.hn < calc.min * calc.hd
             THEN [calc EXCEPT !.hn = calc.max * calc.hd
                                        - (calc.min * calc.hd - calc.hn)]
             ELSE [calc EXCEPT !.pc = "done"]

\* The characters of [0-9A-F], and String.prototype.toUpperCase.
HexDigitChars ==
  <<"0","1","2","3","4","5","6","7","8","9","A","B","C","D","E","F">>

toUpperChar(c) ==
  IF IsIn(LowerAlpha, c) THEN UpperAlpha[IndexOf(LowerAlpha, c)] ELSE c

toUpperCase(s) == [i \in 1..Len(s) |-> toUpperChar(s[i])]

\* A variant of hexMatch for /^#?[0-9A-Fa-f]{3,6}$/.
hexMatchShort(trimmed) ==
  LET digits == IF trimmed # <<>> /\ Head(trimmed) = "#"
                THEN Tail(trimmed) ELSE trimmed
  IN  /\ Len(digits) \in 3..6
      /\ \A i \in 1..Len(digits) :
           IsIn(HexDigitChars, toUpperChar(digits[i]))

\* trimmed.match(/^#?[0-9A-Fa-f]{6}$/)
hexMatch(trimmed) ==
  LET digits == IF trimmed # <<>> /\ Head(trimmed) = "#"
                THEN Tail(trimmed) ELSE trimmed
  IN  /\ Len(digits) = 6
      /\ \A i \in 1..6 : IsIn(HexDigitChars, toUpperChar(digits[i]))

\* The callback of normalizeHexList's map for one element of json.colors
\* (a JSON value: [type, text]); the empty tuple stands for null.
normalizeHex(col) ==
  IF col.type # "string" THEN <<>>
  ELSE LET trimmed == trim(col.text)
       IN  IF ~hexMatch(trimmed) THEN <<>>
           ELSE IF Head(trimmed) = "#" THEN toUpperCase(trimmed)
           ELSE <<"#">> \o toUpperCase(trimmed)

\* normalizeHexList(colors): map, then filter(Boolean).
normalizeHexList(colors) ==
  SelectSeq([i \in 1..Len(colors) |-> normalizeHex(colors[i])],
            LAMBDA hex : hex # <<>>)

\* The number that stands for the colour '#RRGGBB' in the model.
RECURSIVE hexValue(_)
hexValue(digits) ==
  IF digits = <<>> THEN 0
  ELSE 16 * hexValue(SubSeq(digits, 1, Len(digits) - 1))
         + IndexOf(HexDigitChars, digits[Len(digits)]) - 1

\* All the colours of the results of analyzeImageWithGemini, in the order
\* in which analyzeColorFromQuery counts them (a result without colours is
\* null and skipped).
RECURSIVE countedColors(_)
countedColors(results) ==
  IF results = <<>> THEN <<>>
  ELSE normalizeHexList(Head(results)) \o countedColors(Tail(results))

\* Array.from(colorCounts.entries()) sorted by count, then by order: `all`
\* is the sequence of counted colours, `left` the colours not yet placed.
RECURSIVE rankedColors(_, _)
rankedColors(all, left) ==
  IF left = {} THEN <<>>
  ELSE LET count(c) == Cardinality({i \in 1..Len(all) : all[i] = c})
           order(c) == CHOOSE i \in 1..Len(all) :
                         all[i] = c /\ \A j \in 1..(i - 1) : all[j] # c
           top == CHOOSE c \in left :
                    \A d \in left \ {c} :
                      \/ count(c) > count(d)
                      \/ count(c) = count(d) /\ order(c) < order(d)
       IN  <<top>> \o rankedColors(all, left \ {top})

classifyArgs(results) == [fn |-> "classifyArgs", results |-> results]

\* analyzeColorFromQuery resolves for a handler that awaits it: `results`
\* are the colors arrays of the classifier's answers, one per image; no
\* image yields a dominant colour.  Then the handler's loop body.
ClassifierReturns(r) ==
  /\ calc.fn = "classifyArgs"
  /\ \E all \in {countedColors(calc.results)} :
     \E ranked \in {rankedColors(all, {all[i] : i \in 1..Len(all)})} :
       /\ AnalysisReturns(r, [i \in 1..Len(ranked) |-> hexValue(Tail(ranked[i]))])
       /\ calc' = [fn |-> "analyzeColorFromQuery", results |-> calc.results,
                   out |-> ranked]

\* A later call of analyzeColorFromQuery finds no image: null.
ClassifierSilent(r) ==
  /\ calc.fn = "analyzeColorFromQuery"
  /\ AnalysisReturns(r, <<>>)
  /\ UNCHANGED calc

hashArgs(str) == [fn |-> "hashArgs", str |-> str]

\* getHashColor(str)
HashCalled ==
  /\ calc.fn = "hashArgs"
  /\ calc' = [fn |-> "getHashColor", str |-> calc.str,
              out |-> getHashColor(calc.str)]

blendArgs(color1, color2, weight1) ==
  [fn |-> "blendArgs", color1 |-> color1, color2 |-> color2,
   weight1 |-> weight1]

\* blendColors(color1, color2, weight1), weight1 in thousandths.
BlendCalled ==
  /\ calc.fn = "blendArgs"
  /\ calc' = [fn |-> "blendColors", color1 |-> calc.color1,
              color2 |-> calc.color2, weight1 |-> calc.weight1,
              out |-> blendColors(calc.color1, calc.color2, calc.weight1)]

queryArgs(query, words) == [fn |-> "queryArgs", query |-> query, words |-> words]

\* tokenizeQuery, findRawColorName and isSingleRawColorQuery on one query;
\* `words` are the lower-case words the query was written from.
QueryClassified ==
  /\ calc.fn = "queryArgs"
  /\ calc' = [fn |-> "isSingleRawColorQuery", query |-> calc.query,
              words |-> calc.words,
              tokens |-> tokenizeQuery(calc.query),
              rawColorName |-> findRawColorName(calc.query),
              out |-> isSingleRawColorQuery(calc.query)]

\* getPopularCandidateForStep(query, analysisQuery, step) called with any
\* two strings: getCandidateCache and the first evaluation of the paging
\* loop.  `calc` keeps, for every call made, the record the call worked on.
StoreCalled(r, query, analysisQuery, step) ==
  /\ requests[r].pc = "idle"
  /\ \E got \in {getCandidateCache(query, analysisQuery)} :
     \E rec \in {got.records[got.id]} :
     \E next \in {loopOrRespond([IdleRequest EXCEPT
                                   !.query = query, !.step = step,
                                   !.cache = got.id],
                                rec, got.arrays[rec.candidates])} :
       /\ StoreUpdate([requests EXCEPT ![r] = next], got.candidateCache,
                      got.shadow, got.records, got.arrays,
                      searchedAfter(next, rec))
       /\ calc' = [fn |-> "getPopularCandidateForStep",
                   calls |-> (IF calc.fn = "getPopularCandidateForStep"
                              THEN calc.calls ELSE {})
                               \cup {<<query, analysisQuery, got.id>>}]
  /\ UNCHANGED <<now, likes>>

(***************************************************************************)
(* The page script (the client).  `input` is colorInput.value, the empty   *)
(* tuple and Undefined stand for the empty strings of currentQuery and     *)
(* currentColor, `pending` is the request generateColor awaits.  `first`   *)
(* and `similars` are history: the step of the first request sent for      *)
(* each query text, and the number of generateSimilar calls since the      *)
(* last fresh request; `sent` is the previousColor of the last request and *)
(* `collided` tells that its answer went through the collision shift.      *)
(***************************************************************************)
NoRequest == [query |-> <<>>, previousColor |-> Undefined, mode |-> "",
              step |-> 0, via |-> ""]

NoClient ==
  [input |-> <<>>, currentQuery |-> <<>>, currentColor |-> Undefined,
   dislikeStep |-> 0, similarDisabled |-> FALSE, pending |-> NoRequest,
   first |-> <<>>, similars |-> 0, sent |-> Undefined, collided |-> FALSE]

\* The history after a request for `query` with `step` was sent.
firstAfter(first, query, step) ==
  IF query \in DOMAIN first THEN first
  ELSE [q \in DOMAIN first \cup {query} |->
          IF q = query THEN step ELSE first[q]]

\* generateColor(options) up to its `await fetch(generateEndpoint, ...)`,
\* or to its return when the trimmed input is empty.
generateColor(c, previousColor, mode, step, via) ==
  LET query == trim(c.input)
  IN  IF query = <<>> THEN c
      ELSE [c EXCEPT
              !.dislikeStep = IF mode = "" THEN 0 ELSE @,
              !.similarDisabled = IF mode # "refine" THEN TRUE ELSE @,
              !.pending = [query |-> query, previousColor |-> previousColor,
                           mode |-> mode, step |-> step, via |-> via],
              !.first = firstAfter(@, query, step),
              !.similars = IF mode = "" THEN 0 ELSE @,
              !.sent = previousColor,
              !.collided = FALSE]

\* The user edits the input box.
Type(text) == client' = [client EXCEPT !.input = text]

\* A click on Generate (the button is disabled while a request is awaited).
ClickGenerate ==
  /\ client.pending = NoRequest
  /\ client' = generateColor(client, Undefined, "", 0, "generate")

\* A click on the similar button: generateSimilar.
ClickSimilar ==
  /\ client.pending = NoRequest
  /\ ~client.similarDisabled
  /\ client.currentQuery # <<>>
  /\ client.currentColor # Undefined
  /\ \E c \in {[client EXCEPT !.similarDisabled = TRUE,
                              !.dislikeStep = @ + 1,
                              !.similars = @ + 1]} :
     \E next \in {generateColor(c, c.currentColor, "refine", c.dislikeStep,
                                "similar")} :
       client' = IF next.pending = NoRequest
                 THEN [next EXCEPT !.similarDisabled = FALSE]
                 ELSE next

\* The response arrives with `color`: collision check, then the page shows
\* the colour.
Response(color) ==
  /\ client.pending # NoRequest
  /\ client' = [client EXCEPT
                  !.currentQuery = client.pending.query,
                  !.currentColor = displayed(client.pending.previousColor, color),
                  !.similarDisabled = FALSE,
                  !.pending = NoRequest,
                  !.collided = /\ client.pending.previousColor # Undefined
                               /\ color = client.pending.previousColor]

\* The request fails or the answer has no colour: the catch of
\* generateColor, then the finally of generateSimilar.
ResponseFails ==
  /\ client.pending # NoRequest
  /\ client' = [client EXCEPT
                  !.similarDisabled = (client.pending.via # "similar"),
                  !.pending = NoRequest]

(***************************************************************************)
(* Inputs and bounds                                                       *)
(***************************************************************************)
MaxLikes == 1
MaxTicks == 2
MaxStep == 16
MaxItems == 4
MaxLimit == 3

TickMs == cacheTtlMs \div 2

\* Candidate colours an analysed page can hold: #1E90FF, #4682B4, #808080.
DodgerBlue == RGB(30, 144, 255)
SteelBlue == RGB(70, 130, 180)
Gray == RGB(128, 128, 128)
\* #0000FF and #00F0FF: the hue of the second, 130, is folded by the ranges
\* of 'blue' onto the hue of the first, 170.
PureBlue == RGB(0, 0, 255)
Azure == RGB(0, 240, 255)

Modes == {"", "refine"}

\* Requests of the engine specification.
Queries == {qRed, qOceanBlueTyped, qConstructor, qBlank}
Steps == {0, 1}
PreviousColors ==
  {Undefined, Gray, PureBlue,
   shiftHue(DodgerBlue, 0, rangeOf(<<"b","l","u","e">>))}
Pages ==
  {<<>>, <<DodgerBlue, SteelBlue>>, <<Gray>>, <<DodgerBlue>>,
   <<PureBlue, Azure>>}
LikeQueries == {qRed, qOceanBlue}
LikeColors == {Gray}

\* Requests of the store specification: one key, pages that overlap.
StoreSteps == {0, MaxStep}
StorePages == {<<>>, <<DodgerBlue>>, <<SteelBlue, DodgerBlue, SteelBlue>>}

\* Requests of the expiry specification.
TtlSteps == {0, 1, 2}
TtlPages == {<<>>, <<DodgerBlue>>, <<SteelBlue, DodgerBlue, SteelBlue>>}

\* Pages of the session specification.
SessionPages == {<<>>, <<DodgerBlue, SteelBlue, Gray>>}

Outcomes == {"value", "null", "throw"}

\* Requests, pages and likes of the learning specification.
MaxLearned == 2
LearnRequests == {qOceanBlueTyped, qRed}
LearnPages == {<<>>, <<Gray>>}
LearnQueries == {qOceanBlue, qOceanBlueUpper, qRed}
LearnColors == {Gray, DodgerBlue}

\* Providers of the repetition specification: the analysis of the page at
\* offset 0, 10, 20 always gives these candidates, and nothing beyond.
RepeatSteps == {0, 1, 2}
ProviderPages == <<<<DodgerBlue>>, <<>>, <<SteelBlue>>>>

\* Inputs of the analysis specification.
MaxUrls == 4
ModelOutcomes == {"model", "none", "throw"}
ImageOutcomes == {"color", "null"}
AnalysisSteps == {0, 1}
AnalysisPages == {<<DodgerBlue>>}

\* Inputs of the hue specification: colours around the hue circle (one
\* channel 255, one 0, the third in steps of WheelStep), a grey, the shift
\* amounts and the range lists of the lexicon (the empty tuple: no ranges).
WheelStep == 5
MaxShift == 300
wheelColor(sextant, m) ==
  CASE sextant = 0 -> RGB(255, m, 0)
    [] sextant = 1 -> RGB(255 - m, 255, 0)
    [] sextant = 2 -> RGB(0, 255, m)
    [] sextant = 3 -> RGB(0, 255 - m, 255)
    [] sextant = 4 -> RGB(m, 0, 255)
    [] OTHER -> RGB(255, 0, 255 - m)
WheelColors ==
  {wheelColor(x, m) : x \in 0..5, m \in {n \in 0..254 : n % WheelStep = 0}}
    \cup {Gray, DodgerBlue, SteelBlue}
Degrees ==
  {0, 1, 0 - 1, ForcedShift, 0 - ForcedShift, MaxShift, 0 - MaxShift}
RangeLists == {colorNames[i].range : i \in 1..Len(colorNames)} \cup {<<>>}

\* Inputs of the classifier specification: JSON values the classifier may
\* put into "colors" (well-shaped, padded with blanks, too short, too
\* long, not hexadecimal, a colour name, a number), and the colors arrays
\* of two images: at most MaxColors values for the first, at most one for
\* the second.
MaxColors == 2
jsonString(text) == [type |-> "string", text |-> text]
RawValues ==
  {jsonString(<<"1","e","9","0","f","f">>), jsonString(<<"#","1","E","9","0","F","F">>),
   jsonString(<<" ","#","4","6","8","2","b","4"," ">>), jsonString(<<"8","0","8","0","8","0">>),
   jsonString(<<"#","F","F","F">>), jsonString(<<"#","1","E","9","0","F","G">>),
   jsonString(<<"#","1","E","9","0","F","F","0","0">>), jsonString(<<"b","l","u","e">>),
   [type |-> "number", text |-> <<>>]}
RawLists == UNION {[1..n -> RawValues] : n \in 0..MaxColors}
RawResults ==
  {<<first, second>> :
     first \in RawLists, second \in UNION {[1..n -> RawValues] : n \in 0..1}}

\* Inputs of the hash specification: every string of at most MaxHashLen
\* characters over a few characters with low and high codes.
MaxHashLen == 7
HashChars == {"a", "z", "Q", "7"}
HashStrings == UNION {[1..n -> HashChars] : n \in 0..MaxHashLen}

\* Inputs of the loop specification: colours around the hue circle, the
\* ranges of the lexicon, and ranges of one single hue.
LoopStep == 51
LoopColors ==
  {wheelColor(x, m) : x \in 0..5, m \in {n \in 0..254 : n % LoopStep = 0}}
    \cup {DodgerBlue, SteelBlue}
SingleHues == {0, 100, 255}
LoopRanges ==
  UNION {{ranges[i] : i \in 1..Len(ranges)} : ranges \in RangeLists}
    \cup {<<k, k>> : k \in SingleHues}


\* Inputs of the blend specification: colours whose three channels run
\* through 0..255 in different orders, and weights for which the doubles of
\* the code give the exact sum (0.25, 0.5, 0.75) or a sum that is never
\* within 0.1 of a tie (0.8).
BlendStep == 7
BlendColors ==
  {RGB(a, 255 - a, (7 * a) % 256) : a \in {n \in 0..255 : n % BlendStep = 0}}
Weights == {0, 250, 500, 750, RawWeight, 1000}

\* Inputs of the query specification: every lexicon name, 'constructor'
\* and 'ocean', written with a capital, alone or followed by a separator
\* and a second word.
capitalize(word) ==
  <<UpperAlpha[IndexOf(LowerAlpha, Head(word))]>> \o Tail(word)
FirstWords ==
  {colorNames[i].name : i \in 1..Len(colorNames)}
    \cup ObjectPrototypeKeys \cup {<<"o","c","e","a","n">>}
SecondWords ==
  {<<"g","r","e","e","n">>, <<"o","c","e","a","n">>,
   <<"c","o","n","s","t","r","u","c","t","o","r">>}
Separators == {<<" ">>, <<"-">>, <<",", " ">>}
qMintGreen == <<"M","i","n","t"," ","G","r","e","e","n">>

\* Calls of the key specification: pairs of a query and an analysis
\* string, some equal up to case and blanks, some with the characters of
\* the key's separator inside.
KeyCalls ==
  {<<<<"a">>, <<"a">>>>,
   <<<<" ", "A">>, <<"a", " ">>>>,
   <<<<"a">>, <<"b">>>>,
   <<<<"b">>, <<"a">>>>,
   <<<<"a", "|", "|", "b">>, <<"c">>>>,
   <<<<"a">>, <<"b", "|", "|", "c">>>>,
   <<<<"a", "|", "b">>, <<"c">>>>}
KeyPages == {<<DodgerBlue>>}

\* Inputs of the client specification: what the user types, what the
\* server answers, and how many times the user asks for a similar colour.
MaxClicks == 3
Texts == {<<>>, qRed, qOceanBlueTyped}
Answers == {Gray, DodgerBlue}

\* Colours of the collision specification: a lattice over the 24-bit
\* values and the values around the two wraparound points.
ShiftStride == 274177
ShiftColors ==
  {k * ShiftStride : k \in 0..(16777215 \div ShiftStride)}
    \cup {13421770, 13421771, 13421772, 13421773, 16777214, 16777215}

(***************************************************************************)
(* Spec: one handler at a time, any request, any provider answer, likes.   *)
(***************************************************************************)
Init ==
  /\ now = 0
  /\ arrays = <<>>
  /\ records = <<>>
  /\ candidateCache = <<>>
  /\ shadow = <<>>
  /\ likes = <<>>
  /\ requests = [r \in {1} |-> IdleRequest]
  /\ searched = {}
  /\ session = NoSession
  /\ mapper = IdleMapper
  /\ analysis = IdleAnalysis
  /\ saved = <<>>
  /\ calc = NoCall
  /\ client = NoClient

Next ==
  \/ \E r \in DOMAIN requests, q \in Queries, p \in PreviousColors,
        m \in Modes, s \in Steps :
       GenerateStart(r, q, p, m, s) /\ UNCHANGED <<session, mapper, analysis, saved, calc, client>>
  \/ \E r \in DOMAIN requests, page \in Pages :
       AnalysisReturns(r, page) /\ UNCHANGED <<session, mapper, analysis, saved, calc, client>>
  \/ \E r \in DOMAIN requests :
       AnalysisThrows(r) /\ UNCHANGED <<session, mapper, analysis, saved, calc, client>>
  \/ \E r \in DOMAIN requests :
       PersistReturns(r) /\ UNCHANGED <<session, mapper, analysis, saved, calc, client>>
  \/ \E r \in DOMAIN requests :
       Complete(r) /\ UNCHANGED <<session, mapper, analysis, saved, calc, client>>
  \/ \E q \in LikeQueries, c \in LikeColors :
       Len(likes) < MaxLikes /\ Feedback(q, c) /\ UNCHANGED <<session, mapper, analysis, saved, calc, client>>

Spec == Init /\ [][Next]_vars

(***************************************************************************)
(* SpecStore: two overlapping handlers on one cache key, time passing.     *)
(***************************************************************************)
InitStore ==
  /\ now = 0
  /\ arrays = <<>>
  /\ records = <<>>
  /\ candidateCache = <<>>
  /\ shadow = <<>>
  /\ likes = <<>>
  /\ requests = [r \in {1, 2} |-> IdleRequest]
  /\ searched = {}
  /\ session = NoSession
  /\ mapper = IdleMapper
  /\ analysis = IdleAnalysis
  /\ saved = <<>>
  /\ calc = NoCall
  /\ client = NoClient

NextStore ==
  \/ \E r \in DOMAIN requests, s \in StoreSteps :
       GenerateStart(r, qXyzzy, Undefined, "", s) /\ UNCHANGED <<session, mapper, analysis, saved, calc, client>>
  \/ \E r \in DOMAIN requests, page \in StorePages :
       AnalysisReturns(r, page) /\ UNCHANGED <<session, mapper, analysis, saved, calc, client>>
  \/ \E r \in DOMAIN requests :
       AnalysisThrows(r) /\ UNCHANGED <<session, mapper, analysis, saved, calc, client>>
  \/ \E r \in DOMAIN requests :
       PersistReturns(r) /\ UNCHANGED <<session, mapper, analysis, saved, calc, client>>
  \/ \E r \in DOMAIN requests :
       Complete(r) /\ UNCHANGED <<session, mapper, analysis, saved, calc, client>>

SpecStore == InitStore /\ [][NextStore]_vars

(***************************************************************************)
(* SpecTtl: one handler at a time on one cache key while records expire,   *)
(* writes of db.json succeed or fail, and the process is restarted.        *)
(***************************************************************************)
\* The write getCandidateCache starts for a new record is not awaited: it
\* reaches db.json or fails while the handler goes on.
StartTtl(step) ==
  /\ GenerateStart(1, qXyzzy, Undefined, "", step)
  /\ IF shadow' = shadow THEN UNCHANGED saved
     ELSE Written \/ UNCHANGED saved

NextTtl ==
  \/ \E s \in TtlSteps :
       StartTtl(s) /\ UNCHANGED <<session, mapper, analysis, calc, client>>
  \/ \E page \in TtlPages :
       AnalysisReturns(1, page) /\ UNCHANGED <<session, mapper, analysis, saved, calc, client>>
  \/ AnalysisThrows(1) /\ UNCHANGED <<session, mapper, analysis, saved, calc, client>>
  \/ PersistReturns(1) /\ Written /\ UNCHANGED <<session, mapper, analysis, calc, client>>
  \/ PersistFails(1) /\ UNCHANGED <<session, mapper, analysis, saved, calc, client>>
  \/ Complete(1) /\ UNCHANGED <<session, mapper, analysis, saved, calc, client>>
  \/ now < MaxTicks * TickMs /\ Tick(TickMs) /\ UNCHANGED <<session, mapper, analysis, saved, calc, client>>
  \/ Restart /\ UNCHANGED <<session, mapper, analysis, calc, client>>

SpecTtl == Init /\ [][NextTtl]_vars

(***************************************************************************)
(* SpecSession: one client refining one query, step after step.            *)
(***************************************************************************)
SessionRequest ==
  /\ session.step <= MaxStep
  /\ GenerateStart(1, qXyzzy, session.last, sessionMode(session), session.step)
  /\ UNCHANGED <<session, mapper, analysis, saved, calc, client>>

SessionReceive ==
  /\ requests[1].pc = "done"
  /\ session' = sessionAfter(session, requests[1])
  /\ Complete(1)
  /\ UNCHANGED <<mapper, analysis, saved, calc, client>>

NextSession ==
  \/ SessionRequest
  \/ \E page \in SessionPages :
       AnalysisReturns(1, page) /\ UNCHANGED <<session, mapper, analysis, saved, calc, client>>
  \/ AnalysisThrows(1) /\ UNCHANGED <<session, mapper, analysis, saved, calc, client>>
  \/ PersistReturns(1) /\ UNCHANGED <<session, mapper, analysis, saved, calc, client>>
  \/ SessionReceive
  \/ now < cacheTtlMs /\ Tick(cacheTtlMs) /\ UNCHANGED <<session, mapper, analysis, saved, calc, client>>

SpecSession == Init /\ [][NextSession]_vars

(***************************************************************************)
(* SpecMap: one mapWithLimit call after another.                           *)
(***************************************************************************)
NextMap ==
  \/ \E items \in 0..MaxItems, limit \in 1..MaxLimit :
       MapStart(items, limit) /\ UNCHANGED <<serverVars, session, analysis, saved, calc, client>>
  \/ \E w \in 1..MaxLimit, outcome \in Outcomes :
       MapperSettles(w, outcome) /\ UNCHANGED <<serverVars, session, analysis, saved, calc, client>>
  \/ MapReturn /\ UNCHANGED <<serverVars, session, analysis, saved, calc, client>>
  \/ MapReset /\ UNCHANGED <<serverVars, session, analysis, saved, calc, client>>

SpecMap == Init /\ [][NextMap]_vars

(***************************************************************************)
(* SpecLearn: one handler at a time, likes recorded by the client.         *)
(***************************************************************************)
NextLearn ==
  \/ \E q \in LearnRequests, m \in Modes, s \in Steps :
       GenerateStart(1, q, Undefined, m, s)
         /\ UNCHANGED <<session, mapper, analysis, saved, calc, client>>
  \/ \E page \in LearnPages :
       AnalysisReturns(1, page) /\ UNCHANGED <<session, mapper, analysis, saved, calc, client>>
  \/ AnalysisThrows(1) /\ UNCHANGED <<session, mapper, analysis, saved, calc, client>>
  \/ PersistReturns(1) /\ UNCHANGED <<session, mapper, analysis, saved, calc, client>>
  \/ Complete(1) /\ UNCHANGED <<session, mapper, analysis, saved, calc, client>>
  \/ \E q \in LearnQueries, c \in LearnColors :
       /\ Len(likes) < MaxLearned
       /\ Feedback(q, c)
       /\ UNCHANGED <<session, mapper, analysis, saved, calc, client>>

SpecLearn == Init /\ [][NextLearn]_vars

(***************************************************************************)
(* SpecRepeat: requests for one query served one after the other, within   *)
(* one TTL window, by providers whose answer depends on the offset only.   *)
(***************************************************************************)
\* What analyzeColorFromQuery resolves with for the page at `offset`.
providerPage(offset) ==
  IF offset \div pageSize < Len(ProviderPages)
  THEN ProviderPages[offset \div pageSize + 1]
  ELSE <<>>

\* The offset handler r passed to the analysis it awaits: no other handler
\* runs meanwhile, so pagesLoaded is still what it was at the call.
offsetOf(r) == records[requests[r].cache].pagesLoaded * pageSize

NextRepeat ==
  \/ \E r \in DOMAIN requests, s \in RepeatSteps :
       /\ \A o \in DOMAIN requests \ {r} : requests[o].pc \in {"idle", "done"}
       /\ GenerateStart(r, qXyzzy, Undefined, "", s)
       /\ UNCHANGED <<session, mapper, analysis, saved, calc, client>>
  \/ \E r \in DOMAIN requests :
       /\ requests[r].pc = "analyzing"
       /\ AnalysisReturns(r, providerPage(offsetOf(r)))
       /\ UNCHANGED <<session, mapper, analysis, saved, calc, client>>
  \/ \E r \in DOMAIN requests :
       PersistReturns(r) /\ UNCHANGED <<session, mapper, analysis, saved, calc, client>>
  \/ \E r \in DOMAIN requests :
       Complete(r) /\ UNCHANGED <<session, mapper, analysis, saved, calc, client>>

SpecRepeat == InitStore /\ [][NextRepeat]_vars

(***************************************************************************)
(* SpecAnalysis: one handler whose page analyses are carried out step by   *)
(* step.  Weak fairness holds for what needs no external answer: the       *)
(* program's own steps and its timers.  The answers of the search, of the  *)
(* model list, of the vision model and of the image hosts may never come.  *)
(***************************************************************************)
InitAnalysis ==
  /\ now = 0
  /\ arrays = <<>>
  /\ records = <<>>
  /\ candidateCache = <<>>
  /\ shadow = <<>>
  /\ likes = <<>>
  /\ requests = [r \in {1} |-> IdleRequest]
  /\ searched = {}
  /\ session = NoSession
  /\ mapper = IdleMapper
  /\ analysis \in {[IdleAnalysis EXCEPT !.key = k] : k \in BOOLEAN}
  /\ saved = <<>>
  /\ calc = NoCall
  /\ client = NoClient

\* The handler's `await analyzeColorFromQuery(...)` starts the analysis.
HandlerAnalyzes ==
  /\ requests[1].pc = "analyzing"
  /\ AnalyzeStart
  /\ UNCHANGED <<serverVars, session, mapper, saved, calc, client>>

\* The analysis returns to the handler: null, or a list of candidates.
HandlerReceives ==
  /\ analysis.phase = "returned"
  /\ analysis' = nextAnalysis
  /\ \E page \in IF analysis.found THEN AnalysisPages ELSE {<<>>} :
       AnalysisReturns(1, page)
  /\ UNCHANGED <<session, mapper, saved, calc, client>>

\* The rejection of the analysis reaches the handler's catch.
HandlerCatches ==
  /\ analysis.phase = "threw"
  /\ analysis' = nextAnalysis
  /\ AnalysisThrows(1)
  /\ UNCHANGED <<session, mapper, saved, calc, client>>

\* A vision call that returns null without any request (no model).
GeminiSkips ==
  \E w \in 1..GeminiLimit :
    ~analysis.model /\ GeminiSettles(w, "null")
      /\ UNCHANGED <<serverVars, session, saved, calc, client>>

TimersFire ==
  \/ SearchTimesOut /\ UNCHANGED <<serverVars, session, mapper, saved, calc, client>>
  \/ \E i \in 1..MaxUrls :
       DominantTimesOut(i) /\ UNCHANGED <<serverVars, session, mapper, saved, calc, client>>

NextAnalysis ==
  \/ \E s \in AnalysisSteps :
       GenerateStart(1, qXyzzy, Undefined, "", s)
         /\ UNCHANGED <<session, mapper, analysis, saved, calc, client>>
  \/ HandlerAnalyzes
  \/ SearchFails /\ UNCHANGED <<serverVars, session, mapper, saved, calc, client>>
  \/ SearchResponds /\ UNCHANGED <<serverVars, session, mapper, saved, calc, client>>
  \/ \E n \in 0..MaxUrls :
       SearchRead(n) /\ UNCHANGED <<serverVars, session, mapper, saved, calc, client>>
  \/ \E outcome \in ModelOutcomes :
       ModelListAnswers(outcome) /\ UNCHANGED <<serverVars, session, saved, calc, client>>
  \/ \E w \in 1..GeminiLimit, outcome \in Outcomes :
       GeminiSettles(w, outcome) /\ UNCHANGED <<serverVars, session, saved, calc, client>>
  \/ MapReturn /\ UNCHANGED <<serverVars, session, analysis, saved, calc, client>>
  \/ GeminiCollected /\ UNCHANGED <<serverVars, session, saved, calc, client>>
  \/ \E i \in 1..MaxUrls :
       DominantResponds(i) /\ UNCHANGED <<serverVars, session, mapper, saved, calc, client>>
  \/ \E i \in 1..MaxUrls :
       DominantFails(i) /\ UNCHANGED <<serverVars, session, mapper, saved, calc, client>>
  \/ \E i \in 1..MaxUrls, outcome \in ImageOutcomes :
       DominantBody(i, outcome) /\ UNCHANGED <<serverVars, session, mapper, saved, calc, client>>
  \/ DominantCollected /\ UNCHANGED <<serverVars, session, mapper, saved, calc, client>>
  \/ TimersFire
  \/ HandlerReceives
  \/ HandlerCatches
  \/ PersistReturns(1) /\ UNCHANGED <<session, mapper, analysis, saved, calc, client>>
  \/ Complete(1) /\ UNCHANGED <<session, mapper, analysis, saved, calc, client>>

ProgramSteps ==
  \/ HandlerAnalyzes
  \/ GeminiSkips
  \/ MapReturn /\ UNCHANGED <<serverVars, session, analysis, saved, calc, client>>
  \/ GeminiCollected /\ UNCHANGED <<serverVars, session, saved, calc, client>>
  \/ DominantCollected /\ UNCHANGED <<serverVars, session, mapper, saved, calc, client>>
  \/ HandlerReceives
  \/ HandlerCatches
  \/ PersistReturns(1) /\ UNCHANGED <<session, mapper, analysis, saved, calc, client>>

SpecAnalysis ==
  /\ InitAnalysis
  /\ [][NextAnalysis]_vars
  /\ WF_vars(ProgramSteps)
  /\ WF_vars(TimersFire)

(***************************************************************************)
(* SpecHue: calls of shiftHue on colours around the hue circle.            *)
(***************************************************************************)
otherVars == <<serverVars, session, mapper, analysis, saved, client>>

\* No request, no record, nothing written.
InitIdle ==
  /\ now = 0
  /\ arrays = <<>>
  /\ records = <<>>
  /\ candidateCache = <<>>
  /\ shadow = <<>>
  /\ likes = <<>>
  /\ requests = [r \in {1} |-> IdleRequest]
  /\ searched = {}
  /\ session = NoSession
  /\ mapper = IdleMapper
  /\ analysis = IdleAnalysis
  /\ saved = <<>>
  /\ client = NoClient

InitHue ==
  /\ InitIdle
  /\ \E hex \in WheelColors, degree \in Degrees, ranges \in RangeLists :
       calc = shiftHueArgs(hex, degree, ranges)

NextHue ==
  \/ ShiftHueCalled /\ UNCHANGED otherVars
  \/ ShiftHueBack /\ UNCHANGED otherVars

SpecHue == InitHue /\ [][NextHue]_vars

(***************************************************************************)
(* SpecLoop: the two loops of shiftHue, one test per step.  The engine     *)
(* keeps running a loop it has entered, hence the fairness condition.      *)
(***************************************************************************)
InitLoop ==
  /\ InitIdle
  /\ \E hex \in LoopColors, degree \in Degrees, range \in LoopRanges :
       calc = shiftHueLoop(hex, degree, range)

NextLoop ==
  \/ LoopAbove /\ UNCHANGED otherVars
  \/ LoopBelow /\ UNCHANGED otherVars

SpecLoop == InitLoop /\ [][NextLoop]_vars /\ WF_vars(NextLoop)

(***************************************************************************)
(* SpecHash: calls of getHashColor.                                        *)
(***************************************************************************)
InitHash ==
  /\ InitIdle
  /\ \E str \in HashStrings : calc = hashArgs(str)

NextHash == HashCalled /\ UNCHANGED otherVars

SpecHash == InitHash /\ [][NextHash]_vars

(***************************************************************************)
(* SpecClassify: one request whose first page comes from the classifier.   *)
(***************************************************************************)
InitClassify ==
  /\ InitIdle
  /\ \E results \in RawResults : calc = classifyArgs(results)

NextClassify ==
  \/ \E step \in 0..1 :
       GenerateStart(1, qXyzzy, Undefined, "", step)
         /\ calc.fn = "classifyArgs"
         /\ UNCHANGED <<session, mapper, analysis, saved, calc, client>>
  \/ ClassifierReturns(1) /\ UNCHANGED <<session, mapper, analysis, saved, client>>
  \/ ClassifierSilent(1) /\ UNCHANGED <<session, mapper, analysis, saved, client>>
  \/ PersistReturns(1) /\ UNCHANGED <<session, mapper, analysis, saved, calc, client>>

SpecClassify == InitClassify /\ [][NextClassify]_vars

(***************************************************************************)
(* SpecStale: two handlers on one cache key while time passes, so that a   *)
(* handler can still await a page of a record that has expired.            *)
(***************************************************************************)
StalePages == {<<>>, <<DodgerBlue>>}

NextStale ==
  \/ \E r \in DOMAIN requests :
       GenerateStart(r, qXyzzy, Undefined, "", 0)
         /\ UNCHANGED <<session, mapper, analysis, saved, calc, client>>
  \/ \E r \in DOMAIN requests, page \in StalePages :
       AnalysisReturns(r, page)
         /\ UNCHANGED <<session, mapper, analysis, saved, calc, client>>
  \/ \E r \in DOMAIN requests :
       PersistReturns(r)
         /\ UNCHANGED <<session, mapper, analysis, saved, calc, client>>
  \/ \E r \in DOMAIN requests :
       Complete(r)
         /\ UNCHANGED <<session, mapper, analysis, saved, calc, client>>
  \/ now < MaxTicks * TickMs /\ Tick(TickMs)
       /\ UNCHANGED <<session, mapper, analysis, saved, calc, client>>

SpecStale == InitStore /\ [][NextStale]_vars

(***************************************************************************)
(* SpecBlend: calls of blendColors.                                        *)
(***************************************************************************)
InitBlend ==
  /\ InitIdle
  /\ \E color1 \in BlendColors, color2 \in BlendColors, weight1 \in Weights :
       calc = blendArgs(color1, color2, weight1)

NextBlend == BlendCalled /\ UNCHANGED otherVars

SpecBlend == InitBlend /\ [][NextBlend]_vars

(***************************************************************************)
(* SpecQuery: the classification of one query.                             *)
(***************************************************************************)
InitQuery ==
  /\ InitIdle
  /\ \/ \E w \in FirstWords : calc = queryArgs(capitalize(w), <<w>>)
     \/ \E w \in FirstWords, x \in Separators, v \in SecondWords :
          calc = queryArgs(capitalize(w) \o x \o capitalize(v), <<w, v>>)

NextQuery == QueryClassified /\ UNCHANGED otherVars

SpecQuery == InitQuery /\ [][NextQuery]_vars

(***************************************************************************)
(* SpecKey: the store called, one call after the other, with pairs of      *)
(* strings; no time passes, so no record expires.                          *)
(***************************************************************************)
NextKey ==
  \/ \E c \in KeyCalls :
       StoreCalled(1, c[1], c[2], 0) /\ UNCHANGED <<session, mapper, analysis, saved, client>>
  \/ \E page \in KeyPages :
       AnalysisReturns(1, page) /\ UNCHANGED <<session, mapper, analysis, saved, calc, client>>
  \/ PersistReturns(1) /\ UNCHANGED <<session, mapper, analysis, saved, calc, client>>
  \/ Complete(1) /\ UNCHANGED <<session, mapper, analysis, saved, calc, client>>

SpecKey == Init /\ [][NextKey]_vars

(***************************************************************************)
(* SpecClient: one user at the page; the server is any answer.             *)
(***************************************************************************)
serverSide == <<serverVars, session, mapper, analysis, saved, calc>>

NextClient ==
  \/ \E text \in Texts : Type(text) /\ UNCHANGED serverSide
  \/ ClickGenerate /\ UNCHANGED serverSide
  \/ client.dislikeStep < MaxClicks /\ ClickSimilar /\ UNCHANGED serverSide
  \/ \E color \in (Answers \cup {client.pending.previousColor}) \ {Undefined} :
       Response(color) /\ UNCHANGED serverSide
  \/ ResponseFails /\ UNCHANGED serverSide

SpecClient == Init /\ [][NextClient]_vars

(***************************************************************************)
(* SpecShift: one query, and a server that answers any colour, the one the *)
(* client sent as previousColor included.                                  *)
(***************************************************************************)
NextShift ==
  \/ client.input = <<>> /\ Type(qRed) /\ UNCHANGED serverSide
  \/ ClickGenerate /\ UNCHANGED serverSide
  \/ client.dislikeStep < MaxClicks /\ ClickSimilar /\ UNCHANGED serverSide
  \/ \E color \in (ShiftColors \cup {client.pending.previousColor}) \ {Undefined} :
       Response(color) /\ UNCHANGED serverSide
  \/ ResponseFails /\ UNCHANGED serverSide

SpecShift == Init /\ [][NextShift]_vars

(***************************************************************************)
(* Properties                                                              *)
(***************************************************************************)

\* C1: every answered request that carried a previousColor returns a colour
\* different from that previousColor.
C1_DiffersFromPrevious ==
  \A r \in DOMAIN requests :
    (/\ requests[r].pc = "done"
     /\ requests[r].status = 200
     /\ requests[r].previousColor # Undefined)
    => requests[r].color # requests[r].previousColor

C3_RawExact ==
  [][\A r \in DOMAIN requests :
       \A i \in 1..Len(colorNames) :
         (/\ requests[r].pc = "idle"
          /\ requests'[r].pc # "idle"
          /\ tokenizeQuery(requests'[r].query) = <<colorNames[i].name>>)
         => /\ requests'[r].pc = "done"
            /\ requests'[r].status = 200
            /\ requests'[r].color = colorNames[i].hex
            /\ requests'[r].source = "raw_exact"
            /\ UNCHANGED <<arrays, records, candidateCache, shadow, searched>>]_vars

\* "Red" was answered with #FF0000 as a refine request at step 1 with a
\* previousColor, while a like for "Red" and a cache record existed.
C3_Witness ==
  \E r \in DOMAIN requests :
    /\ requests[r].pc = "done"
    /\ tokenizeQuery(requests[r].query) = <<<<"r","e","d">>>>
    /\ requests[r].color = RGB(255, 0, 0)
    /\ requests[r].source = "raw_exact"
    /\ requests[r].mode = "refine"
    /\ requests[r].step = 1
    /\ requests[r].previousColor = Gray
    /\ \E i \in 1..Len(likes) : likes[i].query = qRed
    /\ records # <<>>

\* C4: for a query holding a lexicon colour name among other words, when no
\* collision occurred, the answer is the blend of the name's lexicon hex
\* with the candidate selected for the step at weight 0.8, clamped into the
\* name's hue range, with source weighted_raw and weight 0.8.
C4_WeightedRawBlend ==
  \A r \in DOMAIN requests :
    \A i \in 1..Len(colorNames) :
      (/\ requests[r].pc = "done"
       /\ requests[r].status = 200
       /\ requests[r].source # "learned"
       /\ Len(tokenizeQuery(requests[r].query)) > 1
       /\ findRawColorName(requests[r].query) = colorNames[i].name
       /\ ~requests[r].retried
       /\ requests[r].shifts = 0)
      => /\ requests[r].color =
              shiftHue(blendColors(colorNames[i].hex, requests[r].first, RawWeight),
                       0, colorNames[i].range)
         /\ requests[r].source = "weighted_raw"
         /\ requests[r].weight = RawWeight

\* C5: every request with a non-empty query completes with a colour that
\* is '#' and six hex digits.
C5_AlwaysColorHex ==
  \A r \in DOMAIN requests :
    (requests[r].pc = "done" /\ requests[r].query # <<>>)
    => requests[r].status = 200 /\ IsColorHex(requests[r].color)

\* C6: when the store yields no candidate for the step, the handler selects
\* entry (step mod 15) of the 15 hash colours of query + i, returns it when
\* there is no previousColor, and two such requests with the same query,
\* step and previousColor return the same colour.
C6_FallbackEntry ==
  /\ \A r \in DOMAIN requests :
       (requests[r].pc = "done" /\ requests[r].fallback)
       => /\ requests[r].listLen = FallbackSize
          /\ requests[r].first =
               fallbackListOf(requests[r].query)[(requests[r].step % FallbackSize) + 1]
          /\ requests[r].previousColor = Undefined
               => requests[r].color = requests[r].first
  /\ \A r1, r2 \in DOMAIN requests :
       (/\ requests[r1].pc = "done" /\ requests[r1].fallback
        /\ requests[r2].pc = "done" /\ requests[r2].fallback
        /\ requests[r1].query = requests[r2].query
        /\ requests[r1].step = requests[r2].step
        /\ requests[r1].previousColor = requests[r2].previousColor)
       => requests[r1].color = requests[r2].color

\* Two requests at step MaxStep were both answered from the fallback list
\* because the record ran out of pages with too few candidates.
C6_Witness ==
  /\ \A r \in DOMAIN requests :
       /\ requests[r].pc = "done"
       /\ requests[r].fallback
       /\ requests[r].step = MaxStep
  /\ \E k \in DOMAIN candidateCache :
       /\ records[candidateCache[k]].pagesLoaded >= maxPages
       /\ arrays[records[candidateCache[k]].candidates] # <<>>

\* C7: as long as a cache record lives, its candidate list only grows at
\* its end: the list before any step is a prefix of the list after it.
C7_ListOnlyGrows ==
  [][\A id \in DOMAIN records \cap DOMAIN records' :
       (records[id] # DeadRecord /\ records'[id] # DeadRecord)
       => /\ Len(arrays[records[id].candidates])
               <= Len(arrays'[records'[id].candidates])
          /\ SubSeq(arrays'[records'[id].candidates], 1,
                    Len(arrays[records[id].candidates]))
               = arrays[records[id].candidates]]_vars

\* The record of a second TTL window grew in two appends.
C7_Witness ==
  /\ Len(records) > 1
  /\ now - records[Len(records)].createdAt < cacheTtlMs
  /\ arrays[records[Len(records)].candidates] = <<DodgerBlue, SteelBlue>>

\* C8: no candidate list holds a colour twice, overlapping requests that
\* both fetch and append included.
C8_NoDuplicate ==
  \A a \in 1..Len(arrays) :
    \A i, j \in 1..Len(arrays[a]) : i # j => arrays[a][i] # arrays[a][j]

\* Two overlapping requests on one record have both appended to its list
\* and both await their save.
C8_Witness ==
  /\ requests[1].pc = "persisting"
  /\ requests[2].pc = "persisting"
  /\ requests[1].cache = requests[2].cache
  /\ Len(arrays[records[requests[1].cache].candidates]) = 2

\* C9: for every record, every page offset k * pageSize with
\* 0 <= k < pagesLoaded has been passed to analyzeColorFromQuery.
C9_NoPageLost ==
  \A id \in 1..Len(records) :
    \A k \in 0..(records[id].pagesLoaded - 1) :
      <<id, k * pageSize>> \in searched

\* C10: at most min(limit, items.length) mapper calls are in flight.
C10_BoundedInFlight ==
  /\ Cardinality(inFlight) <= mapper.limit
  /\ Cardinality(inFlight) <= mapper.items

\* With more items than the limit, the limit is reached again after a
\* worker has claimed a further item.
C10_Witness ==
  /\ mapper.phase = "running"
  /\ mapper.items > mapper.limit
  /\ mapper.limit > 1
  /\ mapper.index > mapper.limit
  /\ Cardinality(inFlight) = mapper.limit

(* C11: mapWithLimit calls the mapper at most once per index at any time,  *)
(* and when it returns the mapper has been called exactly once for every   *)
(* index and every one of those calls has settled.                         *)
C11_EveryIndexOnce ==
  /\ \A i \in DOMAIN mapper.calls : mapper.calls[i] <= 1
  /\ mapper.phase = "returned" =>
        \A i \in 1..mapper.items :
          /\ mapper.calls[i] = 1
          /\ mapper.outcomes[i] # "none"

\* A call over more items than workers has returned although a mapper call
\* was rejected.
C11_Witness ==
  /\ mapper.phase = "returned"
  /\ mapper.items = MaxItems
  /\ mapper.limit < mapper.items
  /\ \E i \in 1..mapper.items : mapper.outcomes[i] = "throw"

(* C12: the list mapWithLimit returns is as long as the item list; its     *)
(* position i holds the value the mapper produced for item i, or null when *)
(* that call produced null or was rejected; a rejected call leaves every   *)
(* other position to its own call.                                         *)
C12_ResultsByPosition ==
  mapper.phase = "returned" =>
    /\ Len(mapper.results) = mapper.items
    /\ \A i \in 1..mapper.items :
         /\ mapper.outcomes[i] = "value" => mapper.results[i] = valueOf(i)
         /\ mapper.outcomes[i] \in {"null", "throw"} =>
              mapper.results[i] = NullResult
         /\ mapper.results[i] # EmptySlot

\* A returned list in which a rejected call's null stands before and after
\* values of other calls.
C12_Witness ==
  /\ mapper.phase = "returned"
  /\ mapper.items >= 3
  /\ mapper.outcomes[1] = "value"
  /\ mapper.outcomes[2] = "throw"
  /\ mapper.outcomes[3] = "value"
  /\ mapper.results[1] = valueOf(1)
  /\ mapper.results[2] = NullResult
  /\ mapper.results[3] = valueOf(3)

(* C13: while one page of images is analysed, at most 3 image              *)
(* classifications (vision-model calls and getDominantColor calls) are in  *)
(* flight, on either classifier path.                                      *)
C13_AtMostThreeClassifying == classifying <= GeminiLimit

(* C19: every request that awaits an analysis eventually gets its          *)
(* response, whether or not the search, the model list, the vision model   *)
(* and the image hosts ever answer.                                        *)
C19_EventuallyReturns ==
  (requests[1].pc = "analyzing") ~> (requests[1].pc = "done")

(* C14: when getPopularCandidateForStep returns to a handler, it returns   *)
(* the entry at index `step` of the record's list, with that index,        *)
(* whenever the list then has more than `step` entries; otherwise it       *)
(* returns no candidate, and then either pagesLoaded has reached maxPages  *)
(* or the page fetched last was empty.                                     *)
C14_CandidateAtStep ==
  [][\A r \in DOMAIN requests :
       (/\ requests[r].pc # "done"
        /\ requests'[r].pc = "done"
        /\ requests'[r].store \in {"candidate", "none"}) =>
         LET req == requests'[r]
             rec == records'[req.cache]
             list == arrays'[rec.candidates]
         IN  /\ req.store = "candidate" <=> Len(list) > req.step
             /\ req.store = "candidate" =>
                  /\ ~req.fallback
                  /\ req.index = req.step
                  /\ req.first = list[req.step + 1]
                  /\ req.listLen = Len(list)
             /\ req.store = "none" =>
                  /\ req.fallback
                  /\ rec.pagesLoaded >= maxPages \/ req.emptyPage]_vars

\* A handler at step 1 has been answered from index 1 of a list that took
\* more than one page to build.
C14_Witness ==
  /\ requests[1].pc = "done"
  /\ requests[1].store = "candidate"
  /\ requests[1].step = 1
  /\ requests[1].index = 1
  /\ requests[1].first = DodgerBlue
  /\ records[requests[1].cache].pagesLoaded >= 2

(* C15: a cache lookup hands the handler a record younger than the TTL:    *)
(* the in-memory record of the key when that one is younger than 30        *)
(* minutes; else a record around the shadow entry when that one is younger *)
(* than 30 minutes; else a new empty record with pagesLoaded 0 created     *)
(* now.  The createdAt of a record object never changes afterwards.        *)
C15_ReuseWithinTtl ==
  [][/\ \A r \in DOMAIN requests :
          (/\ requests[r].pc = "idle"
           /\ requests'[r].pc # "idle"
           /\ requests'[r].cache # 0) =>
            LET id == requests'[r].cache
                rec == records'[id]
                key == rec.key
                memOk == /\ key \in DOMAIN candidateCache
                         /\ now - records[candidateCache[key]].createdAt
                              < cacheTtlMs
                shOk == /\ key \in DOMAIN shadow
                        /\ now - shadow[key].createdAt < cacheTtlMs
            IN  /\ now - rec.createdAt < cacheTtlMs
                /\ candidateCache'[key] = id
                /\ memOk => /\ id = candidateCache[key]
                            /\ rec = records[id]
                /\ (~memOk /\ shOk) =>
                     /\ id > Len(records)
                     /\ rec.createdAt = shadow[key].createdAt
                     /\ rec.candidates = shadow[key].candidates
                     /\ rec.seen = shadow[key].seen
                     /\ rec.pagesLoaded = shadow[key].pagesLoaded
                /\ (~memOk /\ ~shOk) =>
                     /\ id > Len(records)
                     /\ rec.createdAt = now
                     /\ rec.pagesLoaded = 0
                     /\ rec.seen = {}
                     /\ arrays'[rec.candidates] = <<>>
     /\ \A i \in DOMAIN records \cap DOMAIN records' :
          (records[i] # DeadRecord /\ records'[i] # DeadRecord) =>
            records'[i].createdAt = records[i].createdAt]_vars

\* After a restart a request was answered from a record built around the
\* shadow entry: it has pages loaded although no search at offset 0 was
\* made for it, and it is older than the lookup.
C15_Witness ==
  /\ requests[1].pc = "done"
  /\ requests[1].store = "candidate"
  /\ requests[1].cache = 1
  /\ records[1].pagesLoaded >= 1
  /\ records[1].createdAt < now
  /\ <<1, 0>> \notin searched

(* C16: whenever no handler is inside getPopularCandidateForStep for a     *)
(* key, the shadow entry of the key agrees with the in-memory record in    *)
(* its candidates, its seen set and its pagesLoaded.                       *)
C16_ShadowFollowsMemory ==
  \A k \in DOMAIN candidateCache :
    (\A r \in DOMAIN requests :
       requests[r].pc \in {"analyzing", "persisting"} =>
         records[requests[r].cache].key # k) =>
      /\ k \in DOMAIN shadow
      /\ arrays[shadow[k].candidates]
           = arrays[records[candidateCache[k]].candidates]
      /\ shadow[k].seen = records[candidateCache[k]].seen
      /\ shadow[k].pagesLoaded = records[candidateCache[k]].pagesLoaded

(* C17: when the write of the shadow fails while a handler awaits it, the  *)
(* handler goes on exactly as after a successful write: same position or   *)
(* same response, same in-memory record and list.                          *)
C17_SaveFailureUnseen ==
  [][\A r \in DOMAIN requests :
       (/\ requests[r].pc = "persisting"
        /\ requests'[r].pc \notin {"persisting", "idle"}
        /\ saved' = saved
        /\ saved # diskImage(shadow, arrays)) =>
         LET req == requests[r]
             rec == records[req.cache]
         IN  /\ requests'[r] = loopOrRespond(req, rec, arrays[rec.candidates])
             /\ requests'[r].store # "threw"
             /\ candidateCache' = candidateCache
             /\ records'[candidateCache'[rec.key]]
                  = records[candidateCache[rec.key]]
             /\ arrays'[rec.candidates] = arrays[rec.candidates]]_vars

\* A request was answered with a stored candidate although the write of
\* its record did not reach db.json.
C17_Witness ==
  /\ requests[1].pc = "done"
  /\ requests[1].store = "candidate"
  /\ saved # diskImage(shadow, arrays)

(* C18: within one TTL window and with providers whose answers are fixed,  *)
(* two requests with the same query, previous colour, mode and step are    *)
(* answered with the same colour, whatever was served in between.          *)
C18_SameRequestSameColour ==
  \A r1, r2 \in DOMAIN requests :
    (/\ requests[r1].pc = "done"
     /\ requests[r2].pc = "done"
     /\ requests[r1].status = 200
     /\ requests[r2].status = 200
     /\ requests[r1].query = requests[r2].query
     /\ requests[r1].previousColor = requests[r2].previousColor
     /\ requests[r1].mode = requests[r2].mode
     /\ requests[r1].step = requests[r2].step) =>
      requests[r1].color = requests[r2].color

(* C20: a request whose query is not a single exact colour name, with no   *)
(* mode and step 0, is answered at once with the colour of the latest like *)
(* whose query equals the request's query up to case, with source learned, *)
(* and leaves the candidate store and the analysis untouched; a request    *)
(* with a mode or with a step above 0 is never answered as learned.        *)
C20_LearnedRule ==
  [][\A r \in DOMAIN requests :
       (/\ requests[r].pc = "idle"
        /\ requests'[r].pc # "idle"
        /\ requests'[r].status # 400) =>
         LET req == requests'[r]
             matching == {i \in 1..Len(likes) :
                            toLowerCase(likes[i].query) = toLowerCase(req.query)}
             latest == CHOOSE i \in matching : \A j \in matching : j <= i
         IN  /\ (/\ ~isSingleRawColorQuery(req.query)
                 /\ req.mode = ""
                 /\ req.step = 0
                 /\ matching # {}) =>
                  /\ req.pc = "done"
                  /\ req.source = "learned"
                  /\ req.color = likes[latest].color
                  /\ req.cache = 0
                  /\ req.store = ""
                  /\ UNCHANGED <<arrays, records, candidateCache, shadow,
                                 searched>>
             /\ (req.mode # "" \/ req.step > 0) => req.source # "learned"]_vars

\* A request typed ' Ocean Blue' was answered with the colour of the later
\* of two likes, recorded for 'ocean blue', not with that of the older
\* like for 'OCEAN BLUE'.
C20_Witness ==
  /\ Len(likes) = 2
  /\ likes[1] = [query |-> qOceanBlueUpper, color |-> Gray]
  /\ likes[2] = [query |-> qOceanBlue, color |-> DodgerBlue]
  /\ requests[1].pc = "done"
  /\ requests[1].query = trim(qOceanBlueTyped)
  /\ requests[1].source = "learned"
  /\ requests[1].color = DodgerBlue

\* C21: shiftHue with ranges leaves a hue inside [min, max] of the range it
\* selected (the first range holding the input hue, else the first range),
\* for every input hue, every shift amount and every declared range list.
C21_HueInsideRange ==
  (calc.fn = "shiftHue" /\ calc.ranges # <<>>)
  => LET hd == calc.hue[2]
         cr == currentRange(calc.hue[1], hd, calc.ranges)
     IN  /\ calc.shifted >= cr[1] * hd
         /\ calc.shifted <= cr[2] * hd
         /\ calc.shifted >= 0
         /\ calc.shifted <= 255 * hd

\* A hue outside every range of the list, shifted by a non-zero amount, was
\* folded more than once into the first range.
C21_Witness ==
  /\ calc.fn = "shiftHue"
  /\ calc.ranges # <<>>
  /\ calc.degree # 0
  /\ \A i \in 1..Len(calc.ranges) :
       \/ calc.hue[1] < calc.ranges[i][1] * calc.hue[2]
       \/ calc.hue[1] > calc.ranges[i][2] * calc.hue[2]
  /\ LET hd == calc.hue[2]
         x == calc.hue[1] + calc.degree * hd
         cr == calc.ranges[1]
     IN  /\ x < cr[1] * hd
         /\ cr[2] * hd - (cr[1] * hd - x) < cr[1] * hd
         /\ calc.shifted >= cr[1] * hd
         /\ calc.shifted <= cr[2] * hd

\* C22: shiftHue without ranges is invertible on the 0-255 hue circle:
\* shifting a hue by d and then by -d gives back the hue (0 and 255 being
\* the same hue), and the hue after each of the two shifts lies in [0, 255].
C22_InvertibleInCircle ==
  calc.fn = "shiftHueBack"
  => LET hd == calc.hue[2]
         full == 255 * hd
     IN  /\ calc.shifted >= 0
         /\ calc.shifted <= full
         /\ calc.back >= 0
         /\ calc.back <= full
         /\ \/ calc.back = calc.hue[1]
            \/ {calc.back, calc.hue[1]} = {0, full}

\* C23: blendColors with weight 1 gives the first colour and with weight 0
\* the second; for every weight each channel of the result is
\* round(c1*w + c2*(1-w)), lies between the two input channels, and the
\* result is a canonical six-digit colour.
C23_BlendBetween ==
  calc.fn = "blendColors"
  => LET w == calc.weight1
         c1 == <<Red(calc.color1), Green(calc.color1), Blue(calc.color1)>>
         c2 == <<Red(calc.color2), Green(calc.color2), Blue(calc.color2)>>
         o == <<Red(calc.out), Green(calc.out), Blue(calc.out)>>
     IN  /\ w = 1000 => calc.out = calc.color1
         /\ w = 0 => calc.out = calc.color2
         /\ IsColorHex(calc.out)
         /\ \A i \in 1..3 :
              LET x == c1[i] * w + c2[i] * (1000 - w)
              IN  /\ x - 1000 * o[i] >= 0 - 500
                  /\ x - 1000 * o[i] < 500
                  /\ o[i] >= Min3(c1[i], c2[i], c2[i])
                  /\ o[i] <= Max3(c1[i], c2[i], c2[i])

\* A blend at weight 0.8 of two colours that differ in every channel, with
\* a channel rounded up and every channel strictly between the inputs.
C23_Witness ==
  /\ calc.fn = "blendColors"
  /\ calc.weight1 = RawWeight
  /\ Red(calc.out) \notin {Red(calc.color1), Red(calc.color2)}
  /\ Green(calc.out) \notin {Green(calc.color1), Green(calc.color2)}
  /\ Blue(calc.out) \notin {Blue(calc.color1), Blue(calc.color2)}
  /\ (Red(calc.color1) * 800 + Red(calc.color2) * 200) % 1000 >= 500

\* C24: isSingleRawColorQuery(q) is true exactly when q, lower-cased and
\* split on runs of non-letters, is one token and that token is a colour
\* name of the lexicon; 'Red' is such a query and 'Mint Green' is not.
C24_SingleLexiconName ==
  calc.fn = "isSingleRawColorQuery"
  => /\ calc.tokens = calc.words
     /\ calc.out <=> (Len(calc.words) = 1 /\ IsLexiconName(calc.words[1]))
     /\ calc.query = qRed => calc.out
     /\ calc.query = qMintGreen => ~calc.out

\* C25: a request in refine mode whose query contains a lexicon colour name
\* searches, and keys its cache record, with the query followed by
\* ' 10 percent more <name>'; every other request with the query unchanged.
C25_RefineSearchString ==
  \A r \in DOMAIN requests :
    requests[r].pc \in {"analyzing", "persisting"}
    => LET req == requests[r]
           name == findRawColorName(req.query)
           expected ==
             IF req.mode = "refine" /\ IsLexiconName(name)
             THEN req.query
                    \o <<" ","1","0"," ","p","e","r","c","e","n","t"," ",
                         "m","o","r","e"," ">>
                    \o name
             ELSE req.query
       IN  records[req.cache].key = getCacheKey(req.query, expected)

C27_NextCandidateBeforeShift ==
  \A r \in DOMAIN requests :
    (/\ requests[r].pc = "done"
     /\ requests[r].source \in {"analyzed_candidate", "weighted_raw"}
     /\ ~requests[r].isRawOnly)
    => LET req == requests[r]
           list == IF req.fallback THEN fallbackListOf(req.query)
                   ELSE arrays[records[req.cache].candidates]
           c0 == clampStep(req.spectrumRanges,
                           blendStep(req.rawColorName, list[req.index + 1]))
           next == list[((req.index + 1) % Len(list)) + 1]
           c1 == clampStep(req.spectrumRanges,
                           blendStep(req.rawColorName, next))
           collided == collides(req.previousColor, c0)
       IN  /\ req.listLen = Len(list)
           /\ req.retried <=> (collided /\ Len(list) > 1)
           /\ req.retried => req.selected = next
           /\ (req.retried /\ ~collides(req.previousColor, c1))
                => (req.shifts = 0 /\ req.color = c1)
           /\ (req.retried /\ collides(req.previousColor, c1))
                => (/\ req.shifts = 1
                    /\ req.color = shiftHue(c1, ForcedShift, req.spectrumRanges))
           /\ req.shifts > 0
                => \/ collided /\ Len(list) = 1
                   \/ req.retried /\ collides(req.previousColor, c1)
           /\ ~collided => (req.shifts = 0 /\ req.color = c0)

\* The first candidate of a stored list of two gave previousColor, and the
\* answer is the clamped second candidate, without a shift.
C27_Witness ==
  \E r \in DOMAIN requests :
    /\ requests[r].pc = "done"
    /\ requests[r].source = "analyzed_candidate"
    /\ ~requests[r].fallback
    /\ requests[r].retried
    /\ requests[r].listLen = 2
    /\ requests[r].shifts = 0
    /\ requests[r].selected # requests[r].first
    /\ requests[r].color =
         clampStep(requests[r].spectrumRanges, requests[r].selected)
    /\ requests[r].color # requests[r].previousColor
    /\ clampStep(requests[r].spectrumRanges, requests[r].first)
         = requests[r].previousColor

\* C28: in one request the forced +30 hue shift is applied at most once:
\* the colour it produces is returned, it is not compared with
\* previousColor and shifted again.
C28_ShiftAtMostOnce ==
  \A r \in DOMAIN requests :
    requests[r].pc = "done" => requests[r].shifts <= 1

\* C29: the paging loop is left by its `break`, with fewer than maxPages
\* pages loaded, only when the search of the page just fetched gave no image
\* URL at all; a page with URLs of which none yielded a colour does not
\* stop the loop.
C29_StopsOnlyWithoutUrls ==
  [][(/\ analysis.phase = "returned"
      /\ ~requests[1].emptyPage
      /\ requests'[1].emptyPage
      /\ records'[requests'[1].cache].pagesLoaded < maxPages)
     => analysis.urls = 0]_vars

\* C30: with one handler at a time on one key, each call of the analysis
\* within a record's lifetime asks for an offset not asked before for that
\* record, the offsets being 0, 10, 20, ... in this order; pagesLoaded is
\* the number of offsets asked before the call, and it is below maxPages.
C30_OffsetsOnceInOrder ==
  [][\A r \in DOMAIN requests :
       (/\ requests'[r].pc = "analyzing"
        /\ \/ requests[r].pc # "analyzing"
           \/ records'[requests'[r].cache].pagesLoaded
                # records[requests[r].cache].pagesLoaded)
       => LET rec == requests'[r].cache
              asked == {e[2] : e \in {x \in searched : x[1] = rec}}
              offset == records'[rec].pagesLoaded * pageSize
          IN  /\ offset \notin asked
              /\ offset = pageSize * Cardinality(asked)
              /\ records'[rec].pagesLoaded = Cardinality(asked)
              /\ records'[rec].pagesLoaded < maxPages]_vars

\* C31: two calls of the store work on the same record exactly when their
\* queries are equal after lower-casing and trimming and their analysis
\* strings are equal after lower-casing and trimming.
C31_SameRecordSameKeyParts ==
  calc.fn = "getPopularCandidateForStep"
  => \A c \in calc.calls, d \in calc.calls :
       (c[3] = d[3])
         <=> (/\ trim(toLowerCase(c[1])) = trim(toLowerCase(d[1]))
              /\ trim(toLowerCase(c[2])) = trim(toLowerCase(d[2])))

\* C32: the step of a request is 0 for a fresh generation and n for the
\* n-th consecutive similar action after it, and the first request sent for
\* a query text carries step 0, whatever the user types and clicks.
C32_StepCountsSimilars ==
  /\ \A q \in DOMAIN client.first : client.first[q] = 0
  /\ client.pending # NoRequest
       => client.pending.step =
            (IF client.pending.mode = "" THEN 0 ELSE client.similars)

\* C39: when the answer equals the previousColor the client sent, the
\* colour shown is (value + 0x333333) mod 0xFFFFFF; it is written with
\* exactly six hexadecimal digits and differs from previousColor.
C39_ShiftedColorDiffers ==
  client.collided =>
    /\ client.currentColor = (client.sent + 3355443) % 16777215
    /\ IsColorHex(client.currentColor)
    /\ Len(padStart6(toString16(client.currentColor))) = 6
    /\ client.currentColor # client.sent

\* A collision whose sum passes 0xFFFFFF and wraps.
C39_Witness ==
  /\ client.collided
  /\ client.sent >= 13421772
  /\ client.currentColor < 3355443

\* C33: shiftHue with a range min <= max leaves both of its loops, for
\* every hue and every shift amount.
C33_LoopsTerminate == (calc.min <= calc.max) ~> (calc.pc = "done")

\* h after the characters of str, where each character code c turns h into
\* 31 * h + c with 32-bit wraparound; h is kept as its four bytes, lowest
\* first.
RECURSIVE wrappedHash(_, _)
wrappedHash(str, h) ==
  IF str = <<>> THEN h
  ELSE LET x0 == 31 * h[1] + charCodeAt(Head(str))
           x1 == 31 * h[2] + (x0 \div 256)
           x2 == 31 * h[3] + (x1 \div 256)
           x3 == 31 * h[4] + (x2 \div 256)
       IN  wrappedHash(Tail(str), <<x0 % 256, x1 % 256, x2 % 256, x3 % 256>>)

\* C34: getHashColor(s) is the colour of the three low bytes, lowest byte
\* first, of h, where h starts at 0 and becomes 31 * h + c for each
\* character code c of s with 32-bit wraparound at every step; the result
\* is a colour of six hexadecimal digits.
C34_HashIsWrapped31 ==
  calc.fn = "getHashColor" =>
    LET h == wrappedHash(calc.str, <<0, 0, 0, 0>>)
    IN  /\ calc.out = RGB(h[1], h[2], h[3])
        /\ IsColorHex(calc.out)
        /\ Len(padStart6(toString16(calc.out))) = 6

\* A hash that has wrapped and is negative as a signed 32-bit integer.
C34_Witness ==
  /\ calc.fn = "getHashColor"
  /\ Len(calc.str) = MaxHashLen
  /\ wrappedHash(calc.str, <<0, 0, 0, 0>>)[4] >= 128

\* The characters of a 6-hex-digit value, and the values of that shape,
\* bare or with a leading '#'.
HexChars ==
  {"0","1","2","3","4","5","6","7","8","9",
   "a","b","c","d","e","f","A","B","C","D","E","F"}

sixHexDigits(text) ==
  LET bare == IF text # <<>> /\ text[1] = "#"
              THEN SubSeq(text, 2, Len(text)) ELSE text
  IN  Len(bare) = 6 /\ \A i \in 1..6 : bare[i] \in HexChars

\* The colour a well-shaped text names.
colorOfText(text) ==
  LET bare == IF text[1] = "#" THEN SubSeq(text, 2, Len(text)) ELSE text
  IN  hexValue(toUpperCase(bare))

\* The values of all colors arrays of the call.
rawValuesOf(results) ==
  UNION {{results[i][j] : j \in 1..Len(results[i])} : i \in 1..Len(results)}

\* Every list and seen set of the store holds exactly `colors`, once each.
storesExactly(colors) ==
  \A id \in DOMAIN records :
    LET list == arrays[records[id].candidates]
    IN  /\ {list[i] : i \in 1..Len(list)} = colors
        /\ Len(list) = Cardinality(colors)
        /\ records[id].seen = colors

C36_PagesLoadedAtMostMax ==
  \A id \in DOMAIN records : records[id].pagesLoaded <= maxPages

\* C36, amended: every handler that awaits a page passed the loop test
\* with pagesLoaded below maxPages, so pagesLoaded exceeds maxPages by at
\* most the number of other handlers that overlap on the record.
C36_PagesLoadedAtMostMaxPlusOverlap ==
  \A id \in DOMAIN records :
    records[id].pagesLoaded <= maxPages + Cardinality(DOMAIN requests) - 1

\* Two handlers awaited a page of the same record at pagesLoaded 9.
C36_Witness ==
  \E id \in DOMAIN records : records[id].pagesLoaded = maxPages + 1

\* C37: in every reachable state the seen set of a record is exactly the
\* set of colours of its candidate list and the list has no duplicates,
\* for the records in memory, records loaded back from the persistent
\* shadow included, and for the entries of the shadow they are loaded from.
C37_SeenIsCandidateSet ==
  /\ \A id \in {i \in DOMAIN records : records[i] # DeadRecord} :
       LET list == arrays[records[id].candidates]
       IN  /\ records[id].seen = {list[i] : i \in 1..Len(list)}
           /\ Len(list) = Cardinality(records[id].seen)
  /\ \A key \in DOMAIN shadow :
       LET list == arrays[shadow[key].candidates]
       IN  /\ shadow[key].seen = {list[i] : i \in 1..Len(list)}
           /\ Len(list) = Cardinality(shadow[key].seen)

\* A record with candidates that this process never searched for: it was
\* loaded back from the shadow after a restart.
C37_Witness ==
  /\ searched = {}
  /\ \E id \in DOMAIN records : Cardinality(records[id].seen) >= 2

\* C38: for every key, the entry of the persistent shadow is never older
\* (smaller createdAt) than the record the Map holds for the key, also
\* when a handler that still holds an expired record saves it after another
\* request has replaced it.
C38_ShadowNotOlderThanMemory ==
  \A key \in DOMAIN candidateCache \cap DOMAIN shadow :
    shadow[key].createdAt >= records[candidateCache[key]].createdAt

=============================================================================
